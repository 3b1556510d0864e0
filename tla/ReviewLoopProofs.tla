-------------------------- MODULE ReviewLoopProofs --------------------------
(***************************************************************************)
(* ReviewLoop proved for every facet, every set of terms and reviewers and *)
(* every value of the bounds: type correctness, that the classifier spares *)
(* what a person decided, and that the engine's editor rows are those of   *)
(* the decisions applied.                                                  *)
(***************************************************************************)
EXTENDS ReviewLoop, SequenceTheorems, TLAPS

(* The worker has been given, or has lost, an initial part of the log.     *)
SettledPrefix == \E n \in 0..Len(log) : tried \union lost = 1..n

(* A row that is decided is the editor's, in the database, as a reviewer   *)
(* has read it and as an open transaction has written it: what the trigger *)
(* looks at is there to be seen.                                           *)
DecidedByEditor ==
  /\ \A r \in 1..Len(reviews) :
       reviews[r].state \in Decided => reviews[r].source = "editor"
  /\ \A d \in Reviewer :
       /\ desk[d].step = "read" /\ desk[d].old.state \in Decided
            => desk[d].old.source = "editor"
       /\ HoldsRow(d) => desk[d].new.state \in Decided /\ desk[d].new.source = "editor"

(***************************************************************************)
(* Type correctness.                                                       *)
(***************************************************************************)

(* No row, no desk, no run and an empty log to start with.                 *)
LEMMA InitType == Init => TypeOK
<1> SUFFICES ASSUME Init PROVE TypeOK
  OBVIOUS
<1>1. StoreTypeOK
  BY ReviewAssumption DEF Init, StoreTypeOK, Value
<1>2. RunTypeOK
  BY ReviewAssumption DEF Init, RunTypeOK, NoRun, Value
<1>3. DeskTypeOK
  BY DEF Init, DeskTypeOK, DeskState, Away, Busy
<1>4. StreamTypeOK
  <2>1. log = <<>> /\ tried = {} /\ lost = {} /\ applied = {}
    BY DEF Init, Stream!Init
  <2>2. faults \in 0..MaxFaults
    BY ReviewAssumption DEF Init
  <2>3. crossed \in BOOLEAN
    BY DEF Init
  <2> QED
    BY <2>1, <2>2, <2>3 DEF StreamTypeOK
<1> QED
  BY <1>1, <1>2, <1>3, <1>4 DEF TypeOK

(***************************************************************************)
(* The classifier.                                                         *)
(***************************************************************************)

(* A run that reads, looks for a pending row, or ends without writing.     *)
LEMMA RunQuietType ==
  ASSUME TypeOK,
         \/ \E v \in Term, sure \in BOOLEAN : RunReads(v, sure)
         \/ RunFinds \/ RunAborts \/ RunStops
  PROVE  TypeOK'
<1>1. UNCHANGED <<storeVars, desk, streamVars, applied, troubleVars>>
  BY DEF RunReads, RunFinds, RunAborts, RunStops
<1>2. RunTypeOK'
  <2>1. ASSUME NEW v \in Term, NEW sure \in BOOLEAN, RunReads(v, sure)
        PROVE  RunTypeOK'
    <3>1. PICK inSync \in SyncStatus :
            run' = [NoRun EXCEPT !.step = IF sure THEN "write" ELSE "find",
                                 !.value = v, !.sure = sure,
                                 !.prior = field, !.inSync = inSync]
      BY <2>1 DEF RunReads
    <3>2. SyncStatus \subseteq BOOLEAN
      BY DEF SyncStatus
    <3>3. run' = [step |-> IF sure THEN "write" ELSE "find", value |-> v,
                  sure |-> sure, prior |-> field, inSync |-> inSync,
                  pending |-> 0, raced |-> FALSE]
      BY <3>1 DEF NoRun
    <3>4. runs' \in 0..MaxRuns
      <4>1. runs < MaxRuns /\ runs' = runs + 1
        BY <2>1 DEF RunReads
      <4> QED
        BY <4>1, ReviewAssumption DEF TypeOK, RunTypeOK
    <3>5. reviews' = reviews /\ Len(reviews) \in Nat
      BY <1>1 DEF storeVars, TypeOK, StoreTypeOK
    <3> QED
      BY <3>2, <3>3, <3>4, <3>5 DEF TypeOK, StoreTypeOK, RunTypeOK, Value
  <2>2. CASE RunFinds
    <3>1. PendingRows(run.value) \subseteq 1..Len(reviews)
      BY DEF PendingRows
    <3>2. \/ run' = [run EXCEPT !.step = "write"]
          \/ \E r \in 1..Len(reviews) :
               run' = [run EXCEPT !.step = "write", !.pending = r]
      BY <2>2, <3>1 DEF RunFinds
    <3>3. run.value \in Term /\ reviews' = reviews /\ runs' = runs
      BY <2>2 DEF RunFinds, TypeOK, RunTypeOK, storeVars
    <3>4. run \in [step : {"idle", "find", "write"}, value : Value, sure : BOOLEAN,
                   prior : Value, inSync : BOOLEAN, pending : 0..Len(reviews),
                   raced : BOOLEAN] /\ runs \in 0..MaxRuns
      BY DEF TypeOK, RunTypeOK
    <3>5. CASE run' = [run EXCEPT !.step = "write"]
      BY <3>3, <3>4, <3>5 DEF RunTypeOK
    <3>6. ASSUME NEW r \in 1..Len(reviews),
                 run' = [run EXCEPT !.step = "write", !.pending = r]
          PROVE  RunTypeOK'
      <4>1. r \in 0..Len(reviews)
        BY DEF TypeOK, StoreTypeOK
      <4>2. /\ run' \in [step : {"idle", "find", "write"}, value : Value, sure : BOOLEAN,
                         prior : Value, inSync : BOOLEAN, pending : 0..Len(reviews),
                         raced : BOOLEAN]
            /\ run'.value = run.value
        BY <3>4, <3>6, <4>1
      <4> QED
        BY <3>3, <3>4, <4>2 DEF RunTypeOK
    <3> QED
      BY <3>2, <3>5, <3>6
  <2>3. CASE RunAborts \/ RunStops
    <3>1. run' = NoRun /\ reviews' = reviews /\ runs' = runs
      BY <2>3 DEF RunAborts, RunStops, storeVars
    <3> QED
      BY <3>1 DEF NoRun, TypeOK, StoreTypeOK, RunTypeOK, Value
  <2> QED
    BY <2>1, <2>2, <2>3
<1>3. StoreTypeOK' /\ DeskTypeOK' /\ StreamTypeOK'
  BY <1>1 DEF TypeOK, StoreTypeOK, DeskTypeOK, StreamTypeOK, storeVars, streamVars,
              troubleVars, Busy
<1> QED
  BY <1>2, <1>3 DEF TypeOK

(* Every branch of a field update leaves a value and an owner.             *)
LEMMA MoveFieldType ==
  ASSUME TypeOK, NEW v \in Value, MoveField(v)
  PROVE  field' \in Value /\ owner' \in {"run", "author", "decision"}
  BY DEF MoveField, TypeOK, StoreTypeOK, RunTypeOK

(* A run's writes: a new row or a rewritten one, and never fewer rows.     *)
LEMMA RunWritesRows ==
  ASSUME TypeOK, RunWrites
  PROVE  /\ reviews' \in Seq(Row)
         /\ Len(reviews') <= MaxRows
         /\ Len(reviews) <= Len(reviews')
<1>1. CASE RunAssigns
  BY <1>1 DEF RunAssigns, TypeOK, StoreTypeOK
<1>2. CASE RunQueues
  <2>1. run.value \in Term /\ run.pending \in 0..Len(reviews)
    BY <1>2 DEF RunQueues, TypeOK, RunTypeOK
  <2>2. CASE run.pending = 0
    <3>1. NewRow \in Row
      BY <2>1 DEF NewRow, Row, Value
    <3> QED
      BY <1>2, <2>2, <3>1, AppendProperties, ReviewAssumption
         DEF RunQueues, TypeOK, StoreTypeOK
  <2>3. CASE run.pending # 0
    <3>1. run.pending \in 1..Len(reviews) /\ reviews[run.pending] \in Row
      BY <2>1, <2>3, ElementOfSeq DEF TypeOK, StoreTypeOK
    <3>2. Reproposed(reviews[run.pending]) \in Row
      BY <2>1, <3>1 DEF Reproposed, Row
    <3>3. reviews' = [reviews EXCEPT ![run.pending] = Reproposed(reviews[run.pending])]
      BY <1>2, <2>3 DEF RunQueues
    <3> QED
      BY <3>1, <3>2, <3>3, ExceptSeq DEF TypeOK, StoreTypeOK
  <2> QED
    BY <2>2, <2>3
<1> QED
  BY <1>1, <1>2 DEF RunWrites

(* A run that commits leaves every store well formed and the desks alone.  *)
LEMMA RunWritesType ==
  ASSUME TypeOK, RunWrites
  PROVE  TypeOK'
<1>1. field' \in Value /\ owner' \in {"run", "author", "decision"}
  <2>1. CASE RunAssigns
    <3>1. run.value \in Value /\ MoveField(run.value)
      BY <2>1 DEF RunAssigns, TypeOK, RunTypeOK
    <3> QED
      BY <3>1, MoveFieldType
  <2>2. CASE RunQueues
    <3>1. None \in Value /\ MoveField(None)
      BY <2>2 DEF RunQueues, Value
    <3> QED
      BY <3>1, MoveFieldType
  <2> QED
    BY <2>1, <2>2 DEF RunWrites
<1>2. assigned' \in [Term -> {"none", "ai", "editor"}]
  BY DEF RunWrites, RunAssigns, RunQueues, Assign, Retract, TypeOK, StoreTypeOK
<1>3. StoreTypeOK'
  BY <1>1, <1>2, RunWritesRows DEF StoreTypeOK
<1>4. RunTypeOK'
  <2>1. run' = NoRun /\ runs' = runs /\ Len(reviews') \in Nat
    BY RunWritesRows DEF RunWrites, RunAssigns, RunQueues
  <2> QED
    BY <2>1 DEF NoRun, TypeOK, RunTypeOK, Value
<1>5. DeskTypeOK'
  <2>1. desk' = desk /\ Len(reviews) \in Nat /\ Len(reviews') \in Nat
    BY RunWritesRows DEF RunWrites, RunAssigns, RunQueues, TypeOK, StoreTypeOK
  <2>2. \A d \in Busy : desk[d].row \in Int
    BY DEF TypeOK, DeskTypeOK, DeskState, Busy, Away
  <2> QED
    BY <2>1, <2>2, RunWritesRows DEF TypeOK, DeskTypeOK, Busy
<1>6. StreamTypeOK'
  BY DEF RunWrites, RunAssigns, RunQueues, TypeOK, StreamTypeOK, streamVars, troubleVars
<1> QED
  BY <1>3, <1>4, <1>5, <1>6 DEF TypeOK

(***************************************************************************)
(* The people.                                                             *)
(***************************************************************************)

(* A run that has been raced is still a run.                               *)
LEMMA RacedType ==
  ASSUME RunTypeOK, run' = RunRaced \/ run' = run, runs' = runs,
         Len(reviews') = Len(reviews)
  PROVE  RunTypeOK'
  BY DEF RunTypeOK, RunRaced

(* An author's edit of the field, which a run may have read already.       *)
LEMMA EditsFieldType ==
  ASSUME TypeOK, NEW v \in Value, EditsField(v)
  PROVE  TypeOK'
<1>1. RunTypeOK'
  BY RacedType DEF EditsField, TypeOK
<1>2. StoreTypeOK' /\ DeskTypeOK' /\ StreamTypeOK'
  BY DEF EditsField, TypeOK, StoreTypeOK, DeskTypeOK, StreamTypeOK, streamVars,
         troubleVars, Busy
<1> QED
  BY <1>1, <1>2 DEF TypeOK

(* What a decision makes of a row is a row.                                *)
LEMMA OutcomeType ==
  ASSUME NEW old \in Row, NEW choice \in Choice
  PROVE  /\ Outcome(old, choice) \in Row
         /\ Outcome(old, choice).state = choice.state
         /\ choice.state \in Decided
         /\ \/ Outcome(old, choice).source = "editor"
            \/ old.state \in Decided /\ Outcome(old, choice).source = old.source
  BY ReviewAssumption DEF Outcome, Choice, Row, Decided, Value

(* What the desk of a reviewer holds at each step.                         *)
LEMMA DeskFacts ==
  ASSUME TypeOK, NEW d \in Reviewer
  PROVE  /\ desk[d].step # "away" =>
              desk[d].row \in 1..Len(reviews) /\ desk[d].row \in 1..MaxRows
         /\ desk[d].step = "read" => desk[d].old \in Row
         /\ HoldsRow(d) => desk[d].new \in Row
         /\ desk[d].step \in {"away", "pressed", "read", "written", "fielded", "announced"}
<1>1. desk[d] \in DeskState
  BY DEF TypeOK, DeskTypeOK
<1>2. d \in Busy => desk[d].row <= Len(reviews)
  BY DEF TypeOK, DeskTypeOK
<1>3. Len(reviews) \in Nat
  BY DEF TypeOK, StoreTypeOK
<1> QED
  BY <1>1, <1>2, <1>3 DEF DeskState, Away, HoldsRow, Busy

(* A step that only moves one desk.                                        *)
LEMMA OneDeskType ==
  ASSUME DeskTypeOK, Len(reviews') = Len(reviews),
         NEW d \in Reviewer, NEW to \in DeskState,
         desk' = [desk EXCEPT ![d] = to],
         to.step # "away" => to.row <= Len(reviews)
  PROVE  DeskTypeOK'
  BY DEF DeskTypeOK, Busy

(* A reviewer takes up a row that exists.                                  *)
LEMMA PressesType ==
  ASSUME TypeOK, NEW d \in Reviewer, NEW r \in 1..Len(reviews), Presses(d, r)
  PROVE  TypeOK'
<1> DEFINE to == [step |-> "pressed", row |-> r]
<1>1. r \in 1..MaxRows /\ r <= Len(reviews)
  BY ReviewAssumption DEF TypeOK, StoreTypeOK
<1>2. to \in DeskState /\ to.row <= Len(reviews)
  BY <1>1 DEF DeskState
<1>3. desk' = [desk EXCEPT ![d] = to] /\ reviews' = reviews
  BY DEF Presses, storeVars
<1>4. DeskTypeOK'
  <2> HIDE DEF to
  <2> QED
    BY <1>2, <1>3, OneDeskType DEF TypeOK
<1>5. StoreTypeOK' /\ RunTypeOK' /\ StreamTypeOK'
  BY DEF Presses, TypeOK, StoreTypeOK, RunTypeOK, StreamTypeOK, storeVars, streamVars,
         troubleVars
<1> QED
  BY <1>4, <1>5 DEF TypeOK

(* What payload.update has read is a row.                                  *)
LEMMA ReadsRowType ==
  ASSUME TypeOK, NEW d \in Reviewer, ReadsRow(d)
  PROVE  TypeOK'
<1> DEFINE to == [step |-> "read", row |-> desk[d].row,
                  old |-> reviews[desk[d].row]]
<1>1. desk[d].row \in 1..Len(reviews) /\ desk[d].row \in 1..MaxRows
  BY DeskFacts DEF ReadsRow
<1>2. reviews[desk[d].row] \in Row /\ Len(reviews) \in Nat
  BY <1>1, ElementOfSeq DEF TypeOK, StoreTypeOK
<1>3. to \in DeskState /\ to.row <= Len(reviews)
  BY <1>1, <1>2 DEF DeskState
<1>4. desk' = [desk EXCEPT ![d] = to] /\ reviews' = reviews
  BY DEF ReadsRow, storeVars
<1>5. DeskTypeOK'
  <2> HIDE DEF to
  <2> QED
    BY <1>3, <1>4, OneDeskType DEF TypeOK
<1>6. StoreTypeOK' /\ RunTypeOK' /\ StreamTypeOK'
  BY DEF ReadsRow, TypeOK, StoreTypeOK, RunTypeOK, StreamTypeOK, storeVars, streamVars,
         troubleVars
<1> QED
  BY <1>5, <1>6 DEF TypeOK

(* Leaving the desk needs nothing of the state.                            *)
LEMMA LeavesDeskType ==
  ASSUME DeskTypeOK, Len(reviews') = Len(reviews), NEW d \in Reviewer,
         desk' = [desk EXCEPT ![d] = Away]
  PROVE  DeskTypeOK'
<1>1. Away \in DeskState /\ Away.step = "away"
  BY DEF Away, DeskState
<1> QED
  BY <1>1, OneDeskType

(* A decision is written or refused.                                       *)
LEMMA WritesRowType ==
  ASSUME TypeOK, NEW d \in Reviewer, NEW choice \in Choice, WritesRow(d, choice)
  PROVE  TypeOK'
<1> DEFINE new == Outcome(desk[d].old, choice)
           to == [step |-> IF new.state = desk[d].old.state THEN "announced" ELSE "written",
                  row |-> desk[d].row, new |-> new]
<1>1. /\ desk[d].row \in 1..Len(reviews) /\ desk[d].row \in 1..MaxRows
      /\ desk[d].old \in Row
  BY DeskFacts DEF WritesRow
<1>2. new \in Row
  BY <1>1, OutcomeType
<1>3. to \in DeskState /\ to.row <= Len(reviews)
  <2> HIDE DEF new
  <2> QED
    BY <1>1, <1>2 DEF DeskState, TypeOK, StoreTypeOK
<1>4. /\ reviews' = reviews
      /\ desk' = [desk EXCEPT ![d] = to] \/ desk' = [desk EXCEPT ![d] = Away]
  BY DEF WritesRow, storeVars
<1>5. DeskTypeOK'
  <2> HIDE DEF to
  <2> QED
    BY <1>3, <1>4, OneDeskType, LeavesDeskType DEF TypeOK
<1>6. StoreTypeOK' /\ RunTypeOK' /\ StreamTypeOK'
  <2>1. crossed' \in BOOLEAN
    BY DEF WritesRow, TypeOK, StreamTypeOK
  <2>2. UNCHANGED <<storeVars, run, runs, streamVars, applied, faults>>
    BY DEF WritesRow
  <2> QED
    BY <2>1, <2>2 DEF TypeOK, StoreTypeOK, RunTypeOK, StreamTypeOK, storeVars, streamVars
<1> QED
  BY <1>5, <1>6 DEF TypeOK

(* A fault counted is within the bound.                                    *)
LEMMA FaultType ==
  ASSUME StreamTypeOK, Fault
  PROVE  faults' \in 0..MaxFaults
  BY ReviewAssumption DEF StreamTypeOK, Fault

(* A decision that is being written goes one step on.                      *)
LEMMA DeskGoesOnType ==
  ASSUME TypeOK, NEW d \in Reviewer, HoldsRow(d),
         NEW step \in {"written", "fielded", "announced"},
         desk' = [desk EXCEPT ![d].step = step], reviews' = reviews
  PROVE  DeskTypeOK'
<1> DEFINE to == [desk[d] EXCEPT !.step = step]
<1>1. desk[d] \in DeskState /\ desk[d].row <= Len(reviews)
  BY DeskFacts DEF TypeOK, DeskTypeOK, HoldsRow, StoreTypeOK
<1>2. desk[d] \in [step : {"written", "fielded", "announced"}, row : 1..MaxRows,
                   new : Row]
  BY <1>1 DEF HoldsRow, DeskState, Away
<1>3. to \in DeskState /\ to.row = desk[d].row
  BY <1>2 DEF DeskState
<1>4. desk' = [desk EXCEPT ![d] = to]
  BY DEF TypeOK, DeskTypeOK
<1> QED
  <2> HIDE DEF to
  <2> QED
    BY <1>1, <1>3, <1>4, OneDeskType DEF TypeOK

(* The decision's own update of the article, made or failed.               *)
LEMMA WritesFieldType ==
  ASSUME TypeOK, NEW d \in Reviewer, WritesField(d)
  PROVE  TypeOK'
<1>1. HoldsRow(d) /\ desk[d].new.final \in Value
  <2>1. HoldsRow(d)
    BY DEF WritesField, HoldsRow
  <2> QED
    BY <2>1, DeskFacts DEF Row
<1>2. DeskTypeOK'
  BY <1>1, DeskGoesOnType DEF WritesField
<1>3. RunTypeOK'
  BY RacedType DEF WritesField, TypeOK
<1>4. StoreTypeOK'
  BY <1>1 DEF WritesField, TypeOK, StoreTypeOK
<1>5. StreamTypeOK'
  <2>1. faults' \in 0..MaxFaults
    BY FaultType DEF WritesField, TypeOK, StreamTypeOK
  <2> QED
    BY <2>1 DEF WritesField, TypeOK, StreamTypeOK, streamVars
<1> QED
  BY <1>2, <1>3, <1>4, <1>5 DEF TypeOK

(* An event published is well formed, and the log only grows.              *)
LEMMA PublishType ==
  ASSUME TypeOK, NEW d \in Reviewer, HoldsRow(d),
         Stream!Publish(Announcement(desk[d].new))
  PROVE  /\ log' \in Seq(Event)
         /\ Len(log') = Len(log) + 1
         /\ \A i \in 1..Len(log) : log'[i] = log[i]
         /\ tried' = tried /\ lost' = lost
<1>1. desk[d].new \in Row
  BY DeskFacts DEF HoldsRow
<1>2. Announcement(desk[d].new) \in Event
  BY <1>1, ReviewAssumption DEF Announcement, Event, Row, Value
<1> QED
  BY <1>2, AppendProperties DEF Stream!Publish, TypeOK, StreamTypeOK

(* The decision's event, published once, twice or not at all.              *)
LEMMA AnnouncesType ==
  ASSUME TypeOK, NEW d \in Reviewer, Announces(d) \/ AnnouncesTwice(d)
  PROVE  TypeOK'
<1>1. HoldsRow(d)
  BY DEF Announces, AnnouncesTwice, HoldsRow
<1>2. DeskTypeOK'
  BY <1>1, DeskGoesOnType
     DEF Announces, AnnouncesTwice, TypeOK, DeskTypeOK, Busy, storeVars
<1>3. StoreTypeOK' /\ RunTypeOK'
  BY DEF Announces, AnnouncesTwice, TypeOK, StoreTypeOK, RunTypeOK, storeVars
<1>4. StreamTypeOK'
  <2>1. faults' \in 0..MaxFaults
    BY FaultType DEF Announces, AnnouncesTwice, TypeOK, StreamTypeOK
  <2>2. \/ Stream!Publish(Announcement(desk[d].new))
        \/ UNCHANGED streamVars
    BY DEF Announces, AnnouncesTwice
  <2>3. /\ log' \in Seq(Event) /\ Len(log') \in {Len(log), Len(log) + 1}
        /\ tried' = tried /\ lost' = lost
    BY <1>1, <2>2, PublishType DEF streamVars, TypeOK, StreamTypeOK
  <2>4. applied' = applied /\ crossed' = crossed /\ Len(log) \in Nat
    BY DEF Announces, AnnouncesTwice, TypeOK, StreamTypeOK
  <2> QED
    BY <2>1, <2>3, <2>4 DEF TypeOK, StreamTypeOK
<1> QED
  BY <1>2, <1>3, <1>4 DEF TypeOK

(* The decision's transaction commits: no row comes or goes.               *)
LEMMA CommitsRowType ==
  ASSUME TypeOK, NEW d \in Reviewer, CommitsRow(d)
  PROVE  TypeOK'
<1>1. desk[d].row \in 1..Len(reviews) /\ desk[d].new \in Row
  BY DeskFacts DEF CommitsRow, HoldsRow
<1>2. reviews' \in Seq(Row) /\ Len(reviews') = Len(reviews)
  BY <1>1, ExceptSeq DEF CommitsRow, TypeOK, StoreTypeOK
<1>3. StoreTypeOK'
  BY <1>2 DEF CommitsRow, TypeOK, StoreTypeOK
<1>4. RunTypeOK'
  BY <1>2, RacedType DEF CommitsRow, TypeOK
<1>5. DeskTypeOK'
  BY <1>2, LeavesDeskType DEF CommitsRow, TypeOK
<1>6. StreamTypeOK'
  BY DEF CommitsRow, TypeOK, StreamTypeOK, streamVars, troubleVars
<1> QED
  BY <1>3, <1>4, <1>5, <1>6 DEF TypeOK

(* The web process dies: only the desk forgets.                            *)
LEMMA DiesType ==
  ASSUME TypeOK, NEW d \in Reviewer, Dies(d)
  PROVE  TypeOK'
<1>1. DeskTypeOK'
  BY LeavesDeskType DEF Dies, TypeOK, storeVars
<1>2. faults' \in 0..MaxFaults
  BY FaultType DEF Dies, TypeOK
<1>3. StoreTypeOK' /\ RunTypeOK' /\ StreamTypeOK'
  BY <1>2 DEF Dies, TypeOK, StoreTypeOK, RunTypeOK, StreamTypeOK, storeVars, streamVars
<1> QED
  BY <1>1, <1>3 DEF TypeOK

(***************************************************************************)
(* The worker.                                                             *)
(***************************************************************************)

(* An event handled, and applied or dropped; or a run of them lost.        *)
LEMMA WorkerType ==
  ASSUME TypeOK, NEW i \in 1..Len(log), Applies(i) \/ Drops(i) \/ Loses(i)
  PROVE  TypeOK'
<1>1. /\ log' = log /\ desk' = desk /\ reviews' = reviews
      /\ UNCHANGED <<field, owner, runs, crossed>>
  BY DEF Applies, Drops, Loses, Stream!Handle, Stream!Lose, storeVars, troubleVars
<1>2. RunTypeOK'
  BY <1>1, RacedType DEF Applies, Drops, Loses, TypeOK
<1>3. assigned' \in [Term -> {"none", "ai", "editor"}]
  BY DEF Applies, Apply, Drops, Loses, storeVars, TypeOK, StoreTypeOK
<1>4. StoreTypeOK' /\ DeskTypeOK'
  BY <1>1, <1>3 DEF TypeOK, StoreTypeOK, DeskTypeOK, Busy
<1>5. StreamTypeOK'
  <2>1. faults' \in 0..MaxFaults
    BY FaultType DEF Applies, Drops, Loses, TypeOK, StreamTypeOK, troubleVars
  <2>2. tried' \union lost' \subseteq 1..Len(log)
    BY DEF Applies, Drops, Loses, Stream!Handle, Stream!Lose, TypeOK, StreamTypeOK
  <2>3. applied' \subseteq tried'
    BY DEF Applies, Drops, Loses, Stream!Handle, Stream!Lose, TypeOK, StreamTypeOK
  <2> QED
    BY <1>1, <2>1, <2>2, <2>3 DEF TypeOK, StreamTypeOK
<1> QED
  BY <1>2, <1>4, <1>5 DEF TypeOK

(* Every step keeps the types, one lemma per action.                       *)
LEMMA NextType == TypeOK /\ [Next]_vars => TypeOK'
<1> SUFFICES ASSUME TypeOK, [Next]_vars
             PROVE  TypeOK'
  OBVIOUS
<1>1. CASE RunStep
  BY <1>1, RunQuietType, RunWritesType DEF RunStep
<1>2. CASE \E v \in Value : EditsField(v)
  BY <1>2, EditsFieldType
<1>3. CASE \E d \in Reviewer, r \in 1..Len(reviews) : Presses(d, r)
  BY <1>3, PressesType
<1>4. ASSUME NEW d \in Reviewer, DeskStep(d) \/ AnnouncesTwice(d) \/ Dies(d)
      PROVE  TypeOK'
  BY <1>4, ReadsRowType, WritesRowType, WritesFieldType, AnnouncesType, CommitsRowType,
     DiesType DEF DeskStep
<1>5. CASE WorkerStep \/ \E i \in 1..Len(log) : Loses(i)
  BY <1>5, WorkerType DEF WorkerStep
<1>6. CASE UNCHANGED vars
  BY <1>6 DEF vars, storeVars, streamVars, troubleVars, TypeOK, StoreTypeOK, RunTypeOK,
              DeskTypeOK, StreamTypeOK, Busy
<1> QED
  BY <1>1, <1>2, <1>3, <1>4, <1>5, <1>6 DEF Next

(* The loop is type correct for every facet and every bound.               *)
THEOREM ReviewTypeCorrect == Spec => []TypeOK
  BY InitType, NextType, PTL DEF Spec

(***************************************************************************)
(* The classifier spares what a person decided.                            *)
(***************************************************************************)

(* The trigger lets the classifier rewrite only rows that are not decided. *)
LEMMA RunRewritesUndecided ==
  ASSUME TypeOK, DecidedByEditor, RunStep, NEW r \in 1..Len(reviews)
  PROVE  /\ reviews[r].state \in Decided => reviews'[r] = reviews[r]
         /\ reviews'[r].state = reviews[r].state
<1>1. CASE UNCHANGED reviews
  BY <1>1
<1>2. CASE RunQueues
  <2>1. CASE run.pending = 0
    <3>1. run.value \in Term /\ reviews' = Append(reviews, NewRow)
      BY <1>2, <2>1 DEF RunQueues, TypeOK, RunTypeOK
    <3>2. NewRow \in Row
      BY <3>1 DEF NewRow, Row, Value
    <3> QED
      BY <3>1, <3>2, AppendProperties DEF TypeOK, StoreTypeOK
  <2>2. CASE run.pending # 0
    <3>1. run.pending \in 1..Len(reviews) /\ reviews[run.pending] \in Row
      BY <2>2, ElementOfSeq DEF TypeOK, StoreTypeOK, RunTypeOK
    <3>2. /\ reviews' = [reviews EXCEPT ![run.pending] = Reproposed(reviews[run.pending])]
          /\ ~Refuses(reviews[run.pending], Reproposed(reviews[run.pending]))
      BY <1>2, <2>2 DEF RunQueues
    <3>3. Reproposed(reviews[run.pending]).state = reviews[run.pending].state
      BY <3>1 DEF Reproposed, Row
    <3>4. reviews[run.pending].state \notin Decided
      BY <3>1, <3>2 DEF Refuses, Reproposed, DecidedByEditor, Row, Decided
    <3>5. \A q \in 1..Len(reviews) :
            reviews'[q] = IF q = run.pending THEN Reproposed(reviews[q]) ELSE reviews[q]
      BY <3>2, ElementOfSeq DEF TypeOK, StoreTypeOK
    <3> QED
      BY <3>3, <3>4, <3>5
  <2> QED
    BY <2>1, <2>2
<1> QED
  BY <1>1, <1>2
     DEF RunStep, RunReads, RunFinds, RunWrites, RunAssigns, RunAborts, RunStops, storeVars

(* ... and a run writes none of the engine's terms that are the editor's.  *)
LEMMA RunKeepsEditorTerms ==
  ASSUME TypeOK, RunStep, NEW t \in Term
  PROVE  assigned'[t] = "editor" <=> assigned[t] = "editor"
<1>1. CASE UNCHANGED assigned
  BY <1>1
<1>2. ASSUME NEW v, Assign(v)
      PROVE  assigned'[t] = "editor" <=> assigned[t] = "editor"
  BY <1>2 DEF Assign
<1>3. CASE Retract
  BY <1>3 DEF Retract
<1> QED
  BY <1>1, <1>2, <1>3
     DEF RunStep, RunReads, RunFinds, RunWrites, RunAssigns, RunQueues, RunAborts, RunStops,
         storeVars

(* Nothing is decided at first.                                            *)
LEMMA InitDecided == Init => DecidedByEditor
  BY DEF Init, DecidedByEditor, Away, HoldsRow

(* A reviewer's own steps: what is read is what is there, what is written  *)
(* is decided and the editor's, and that is what is committed.             *)
LEMMA DeskDecided ==
  ASSUME TypeOK, DecidedByEditor, NEW d \in Reviewer,
         DeskStep(d) \/ AnnouncesTwice(d) \/ Dies(d)
  PROVE  DecidedByEditor'
<1>1. CASE ReadsRow(d)
  <2>1. desk[d].row \in 1..Len(reviews)
    BY <1>1, DeskFacts DEF ReadsRow
  <2> QED
    BY <1>1, <2>1 DEF ReadsRow, DecidedByEditor, HoldsRow, storeVars, TypeOK, DeskTypeOK
<1>2. ASSUME NEW choice \in Choice, WritesRow(d, choice)
      PROVE  DecidedByEditor'
  <2> DEFINE new == Outcome(desk[d].old, choice)
  <2>1. desk[d].step = "read" /\ desk[d].old \in Row
    BY <1>2, DeskFacts DEF WritesRow
  <2>2. new.state \in Decided /\ new.source = "editor"
    BY <2>1, OutcomeType DEF DecidedByEditor
  <2>3. /\ reviews' = reviews
        /\ \/ desk' = [desk EXCEPT ![d] = Away]
           \/ desk' = [desk EXCEPT ![d] =
                [step |-> IF new.state = desk[d].old.state THEN "announced" ELSE "written",
                 row |-> desk[d].row, new |-> new]]
    BY <1>2 DEF WritesRow, storeVars
  <2> HIDE DEF new
  <2> QED
    BY <2>2, <2>3 DEF DecidedByEditor, HoldsRow, Away, TypeOK, DeskTypeOK
<1>3. CASE WritesField(d) \/ Announces(d) \/ AnnouncesTwice(d)
  <2>1. HoldsRow(d) /\ desk[d].step # "read" /\ reviews' = reviews
    BY <1>3 DEF WritesField, Announces, AnnouncesTwice, HoldsRow, storeVars
  <2>2. \/ desk' = desk
        \/ \E step \in {"fielded", "announced"} : desk' = [desk EXCEPT ![d].step = step]
    BY <1>3 DEF WritesField, Announces, AnnouncesTwice
  <2>3. desk[d] \in [step : {"written", "fielded", "announced"}, row : 1..MaxRows,
                     new : Row]
    BY <2>1 DEF HoldsRow, TypeOK, DeskTypeOK, DeskState, Away
  <2>4. ASSUME NEW e \in Reviewer
        PROVE  /\ desk'[e].step = "read" => desk'[e] = desk[e]
               /\ HoldsRow(e)' => HoldsRow(e) /\ desk'[e].new = desk[e].new
    <3>1. CASE e # d
      BY <2>2, <3>1 DEF HoldsRow, TypeOK, DeskTypeOK
    <3>2. CASE e = d
      BY <2>1, <2>2, <2>3, <3>2 DEF HoldsRow, TypeOK, DeskTypeOK
    <3> QED
      BY <3>1, <3>2
  <2> QED
    BY <2>1, <2>4 DEF DecidedByEditor
<1>4. CASE CommitsRow(d)
  <2>1. HoldsRow(d) /\ desk[d].row \in 1..Len(reviews)
    BY <1>4, DeskFacts DEF CommitsRow, HoldsRow
  <2> QED
    BY <1>4, <2>1
       DEF CommitsRow, DecidedByEditor, HoldsRow, Away, TypeOK, StoreTypeOK, DeskTypeOK
<1>5. CASE Dies(d)
  BY <1>5 DEF Dies, DecidedByEditor, HoldsRow, Away, storeVars, TypeOK, DeskTypeOK
<1> QED
  BY <1>1, <1>2, <1>3, <1>4, <1>5 DEF DeskStep

(* The trigger's premiss is inductive.                                     *)
LEMMA NextDecided ==
  TypeOK /\ DecidedByEditor /\ [Next]_vars => DecidedByEditor'
<1> SUFFICES ASSUME TypeOK, DecidedByEditor, [Next]_vars
             PROVE  DecidedByEditor'
  OBVIOUS
<1>1. CASE RunStep
  <2>1. desk' = desk
    BY <1>1 DEF RunStep, RunReads, RunFinds, RunWrites, RunAssigns, RunQueues, RunAborts,
                RunStops
  <2>2. ASSUME NEW r \in 1..Len(reviews'), reviews'[r].state \in Decided
        PROVE  reviews'[r].source = "editor"
    <3>1. CASE r \in 1..Len(reviews)
      BY <1>1, <2>2, <3>1, RunRewritesUndecided DEF DecidedByEditor
    <3>2. CASE r \notin 1..Len(reviews)
      <4>1. RunQueues /\ run.pending = 0
        <5>1. Len(reviews') # Len(reviews)
          BY <2>2, <3>2
        <5>2. RunQueues
          BY <1>1, <5>1
             DEF RunStep, RunReads, RunFinds, RunWrites, RunAssigns, RunAborts, RunStops,
                 storeVars
        <5>3. CASE run.pending # 0
          BY <5>1, <5>2, <5>3, ExceptSeq DEF RunQueues, TypeOK, StoreTypeOK
        <5> QED
          BY <5>2, <5>3
      <4>2. reviews'[r] = NewRow
        BY <2>2, <3>2, <4>1, AppendProperties DEF RunQueues, TypeOK, StoreTypeOK
      <4> QED
        BY <2>2, <4>2 DEF NewRow, Decided
    <3> QED
      BY <3>1, <3>2
  <2> QED
    BY <2>1, <2>2 DEF DecidedByEditor, HoldsRow
<1>2. CASE \E v \in Value : EditsField(v)
  BY <1>2 DEF EditsField, DecidedByEditor, HoldsRow
<1>3. CASE \E d \in Reviewer, r \in 1..Len(reviews) : Presses(d, r)
  BY <1>3 DEF Presses, DecidedByEditor, HoldsRow, storeVars, TypeOK, DeskTypeOK
<1>4. CASE \E d \in Reviewer : DeskStep(d) \/ AnnouncesTwice(d) \/ Dies(d)
  BY <1>4, DeskDecided
<1>5. CASE WorkerStep \/ \E i \in 1..Len(log) : Loses(i)
  BY <1>5 DEF WorkerStep, Applies, Drops, Loses, storeVars, DecidedByEditor, HoldsRow
<1>6. CASE UNCHANGED vars
  BY <1>6 DEF vars, storeVars, DecidedByEditor, HoldsRow
<1> QED
  BY <1>1, <1>2, <1>3, <1>4, <1>5, <1>6 DEF Next

(* A row that is decided is the editor's, wherever a step can see it.      *)
THEOREM DecidedRowsAreEditors == Spec => []DecidedByEditor
  BY InitDecided, NextDecided, ReviewTypeCorrect, PTL DEF Spec

(* F86 for every interleaving of runs and reviewers: a run changes neither *)
(* a decided row nor a term the engine holds as the editor's.              *)
THEOREM RunsSpareDecisions == Spec => RunSparesDecisions
<1>1. TypeOK /\ DecidedByEditor =>
        [RunStep =>
           /\ \A r \in 1..Len(reviews) :
                reviews[r].state \in Decided => reviews'[r] = reviews[r]
           /\ \A t \in Term : assigned[t] = "editor" => assigned'[t] = "editor"]_vars
  BY RunRewritesUndecided, RunKeepsEditorTerms
<1> QED
  BY <1>1, ReviewTypeCorrect, DecidedRowsAreEditors, PTL DEF RunSparesDecisions

(* While nothing came between, the article still has the value the run has *)
(* read, and a run that may move it read none or one of its own.           *)
RunReadsStill ==
  run.step # "idle" /\ ~run.raced =>
    /\ field = run.prior
    /\ run.inSync /\ field # None => assigned[field] \in {"none", "ai"}

(* Everyone else who writes either store marks the run as raced.           *)
LEMMA NextReadsStill ==
  TypeOK /\ RunReadsStill /\ [Next]_vars => RunReadsStill'
<1> SUFFICES ASSUME TypeOK, RunReadsStill, [Next]_vars PROVE RunReadsStill'
  OBVIOUS
<1>1. ASSUME NEW v \in Term, NEW sure \in BOOLEAN, RunReads(v, sure) PROVE RunReadsStill'
  <2>1. PICK inSync \in SyncStatus :
          run' = [NoRun EXCEPT !.step = IF sure THEN "write" ELSE "find",
                               !.value = v, !.sure = sure, !.prior = field, !.inSync = inSync]
    BY <1>1 DEF RunReads
  <2>2. run'.prior = field /\ run'.inSync = inSync
    BY <2>1 DEF NoRun
  <2>3. field' = field /\ assigned' = assigned
    BY <1>1 DEF RunReads, storeVars
  <2>4. inSync /\ field # None => assigned[field] \in {"none", "ai"}
    <3> DEFINE rows == {t \in Term : assigned[t] # "none"}
    <3> SUFFICES ASSUME inSync, field # None PROVE assigned[field] \in {"none", "ai"}
      OBVIOUS
    <3>1. CASE rows = {}
      BY <3>1 DEF SyncStatus
    <3>2. CASE rows # {}
      <4>1. PICK t \in rows : inSync = (assigned[t] # "editor" /\ field = t)
        BY <3>2 DEF SyncStatus
      <4> QED BY <4>1 DEF TypeOK, StoreTypeOK
    <3> QED BY <3>1, <3>2
  <2> QED BY <2>2, <2>3, <2>4 DEF RunReadsStill
<1>2. CASE RunFinds
  <2>1. \/ run' = [run EXCEPT !.step = "write"]
        \/ \E r \in PendingRows(run.value) : run' = [run EXCEPT !.step = "write", !.pending = r]
    BY <1>2 DEF RunFinds
  <2>2. /\ run'.prior = run.prior /\ run'.inSync = run.inSync /\ run'.raced = run.raced
        /\ run.step # "idle"
    BY <1>2, <2>1 DEF RunFinds, TypeOK, RunTypeOK
  <2> QED BY <1>2, <2>2 DEF RunReadsStill, RunFinds, storeVars
<1>3. CASE RunWrites \/ RunAborts \/ RunStops
  BY <1>3 DEF RunWrites, RunAssigns, RunQueues, RunAborts, RunStops, NoRun, RunReadsStill
<1>4. ASSUME run' = RunRaced PROVE RunReadsStill'
  <2>1. run'.step = run.step /\ (run'.step # "idle" => run'.raced)
    BY <1>4 DEF RunRaced, TypeOK, RunTypeOK
  <2> QED BY <2>1 DEF RunReadsStill
<1>5. ASSUME UNCHANGED <<run, field, assigned>> PROVE RunReadsStill'
  BY <1>5 DEF RunReadsStill
<1>6. ASSUME NEW d \in Reviewer, WritesField(d) PROVE RunReadsStill'
  BY <1>4, <1>5, <1>6 DEF WritesField
<1>7. CASE \/ \E v \in Value : EditsField(v)
           \/ \E i \in 1..Len(log) : Applies(i)
  BY <1>4, <1>7 DEF EditsField, Applies
<1>8. CASE \/ \E d \in Reviewer, r \in 1..Len(reviews) : Presses(d, r)
           \/ \E d \in Reviewer :
                \/ ReadsRow(d) \/ Announces(d) \/ CommitsRow(d) \/ AnnouncesTwice(d) \/ Dies(d)
                \/ \E choice \in Choice : WritesRow(d, choice)
           \/ \E i \in 1..Len(log) : Drops(i) \/ Loses(i)
           \/ UNCHANGED vars
  <2>1. UNCHANGED <<run, field, assigned>>
    BY <1>8 DEF Presses, ReadsRow, Announces, AnnouncesTwice, CommitsRow, Dies, WritesRow,
                Drops, Loses, storeVars, vars
  <2> QED BY <1>5, <2>1
<1> QED
  BY <1>1, <1>2, <1>3, <1>6, <1>7, <1>8 DEF Next, RunStep, DeskStep, WorkerStep

(* F132: a run that nothing came between leaves the article's field where  *)
(* it is, once the engine holds that value as the editor's.                *)
THEOREM RunSparesSettledFieldForAll == Spec => RunSparesSettledField
<1>1. Init => RunReadsStill
  BY DEF Init, RunReadsStill, NoRun
<1>2. TypeOK /\ RunReadsStill =>
        [RunWrites /\ ~run.raced /\ field # None /\ assigned[field] = "editor"
           => field' = field]_vars
  <2> SUFFICES ASSUME RunReadsStill, RunWrites, ~run.raced, field # None, assigned[field] = "editor"
               PROVE  field' = field
    OBVIOUS
  <2>1. run.step = "write" /\ \E v : MoveField(v)
    BY DEF RunWrites, RunAssigns, RunQueues
  <2>2. field = run.prior /\ ~run.inSync
    BY <2>1 DEF RunReadsStill
  <2> QED BY <2>1, <2>2 DEF MoveField
<1> QED
  BY <1>1, <1>2, NextReadsStill, ReviewTypeCorrect, PTL DEF Spec, RunSparesSettledField

(***************************************************************************)
(* The engine follows the decisions.                                       *)
(***************************************************************************)

(* The editor's terms are those of the decisions applied, and what is      *)
(* applied is older than what is still to come.                            *)
FollowsInOrder == SettledPrefix /\ EngineFollowsDecisions

(* Only the worker touches the editor's terms or the settled events.       *)
LEMMA OthersKeepEditorTerms ==
  ASSUME TypeOK, [Next]_vars,
         ~ \E i \in 1..Len(log) : Applies(i) \/ Drops(i) \/ Loses(i)
  PROVE  /\ \A t \in Term : assigned'[t] = "editor" <=> assigned[t] = "editor"
         /\ tried' = tried /\ lost' = lost /\ applied' = applied
         /\ Len(log) \in Nat /\ Len(log') \in Nat /\ Len(log) <= Len(log')
         /\ \A i \in 1..Len(log) : log'[i] = log[i]
<1>0. Len(log) \in Nat
  BY DEF TypeOK, StreamTypeOK
<1>1. CASE RunStep
  <2>1. UNCHANGED streamVars /\ applied' = applied
    BY <1>1 DEF RunStep, RunReads, RunFinds, RunWrites, RunAssigns, RunQueues, RunAborts,
                RunStops
  <2> QED
    BY <1>0, <1>1, <2>1, RunKeepsEditorTerms DEF streamVars
<1>2. ASSUME NEW d \in Reviewer, Announces(d) \/ AnnouncesTwice(d)
      PROVE  /\ tried' = tried /\ lost' = lost /\ applied' = applied /\ assigned' = assigned
             /\ Len(log') \in Nat /\ Len(log) <= Len(log')
             /\ \A i \in 1..Len(log) : log'[i] = log[i]
  <2>1. HoldsRow(d) /\ applied' = applied /\ assigned' = assigned
    BY <1>2 DEF Announces, AnnouncesTwice, HoldsRow, storeVars
  <2>2. \/ Stream!Publish(Announcement(desk[d].new))
        \/ UNCHANGED streamVars
    BY <1>2 DEF Announces, AnnouncesTwice
  <2> QED
    BY <1>0, <2>1, <2>2, PublishType DEF streamVars
<1>3. CASE UNCHANGED <<assigned, streamVars, applied>>
  BY <1>0, <1>3 DEF streamVars
<1>4. CASE \/ \E v \in Value : EditsField(v)
           \/ \E d \in Reviewer, r \in 1..Len(reviews) : Presses(d, r)
           \/ \E d \in Reviewer :
                \/ ReadsRow(d) \/ WritesField(d) \/ CommitsRow(d) \/ Dies(d)
                \/ \E choice \in Choice : WritesRow(d, choice)
           \/ UNCHANGED vars
  BY <1>3, <1>4
     DEF EditsField, Presses, ReadsRow, WritesField, CommitsRow, Dies, WritesRow, storeVars,
         vars
<1> QED
  BY <1>1, <1>2, <1>4 DEF Next, DeskStep, WorkerStep

(* A decision applied is newer than all those applied before it.           *)
LEMMA AppliesInOrder ==
  ASSUME TypeOK, FollowsInOrder, NEW i \in 1..Len(log), Applies(i)
  PROVE  EngineFollowsDecisions'
<1>1. \A j \in applied : j \in Nat /\ j < i
  <2>1. PICK n \in 0..Len(log) : tried \union lost = 1..n
    BY DEF FollowsInOrder, SettledPrefix
  <2>2. i \notin 1..n
    BY <2>1 DEF Applies, Stream!Handle, Stream!Settled
  <2> QED
    BY <2>1, <2>2 DEF TypeOK, StreamTypeOK
<1>2. /\ assigned' = Apply(log[i]) /\ applied' = applied \union {i}
      /\ log' = log /\ i \in Nat
  BY DEF Applies, Stream!Handle
<1> DEFINE Held(t) ==
      \E k \in applied : /\ log[k].term = t
                         /\ \A j \in applied : j > k =>
                              IF Multi THEN log[j].previous # t ELSE log[j].term = t
           HeldAfter(t) ==
      \E k \in applied' : /\ log[k].term = t
                          /\ \A j \in applied' : j > k =>
                               IF Multi THEN log[j].previous # t ELSE log[j].term = t
<1>3. ASSUME NEW t \in Term
      PROVE  assigned'[t] = "editor" <=> HeldAfter(t)
  <2>1. assigned[t] = "editor" <=> Held(t)
    BY DEF FollowsInOrder, EngineFollowsDecisions
  <2>2. assigned'[t] = "editor" <=>
          log[i].term = t \/ (~Supersedes(log[i], t) /\ assigned[t] = "editor")
    BY <1>2 DEF Apply
  <2>3. HeldAfter(t) <=>
          log[i].term = t \/ (~Supersedes(log[i], t) /\ Held(t))
    BY <1>1, <1>2 DEF Supersedes
  <2> QED
    BY <2>1, <2>2, <2>3
<1>4. EngineFollowsDecisions' <=>
        {t \in Term : assigned'[t] = "editor"} = {t \in Term : HeldAfter(t)}
  BY <1>2 DEF EngineFollowsDecisions
<1> QED
  BY <1>3, <1>4

(* The settled events stay an initial part of the log.                     *)
LEMMA SettlesInOrder ==
  ASSUME TypeOK, SettledPrefix, NEW i \in 1..Len(log), Applies(i) \/ Drops(i) \/ Loses(i)
  PROVE  SettledPrefix'
<1>1. PICK n \in 0..Len(log) : tried \union lost = 1..n
  BY DEF SettledPrefix
<1>2. log' = log /\ Len(log) \in Nat
  BY DEF Applies, Drops, Loses, Stream!Handle, Stream!Lose, TypeOK, StreamTypeOK
<1>3. CASE Applies(i) \/ Drops(i)
  <2>1. i = n + 1 /\ tried' \union lost' = 1..n \union {i}
    <3>1. /\ i \notin 1..n /\ \A j \in 1..(i - 1) : j \in 1..n
          /\ tried' = tried \union {i} /\ lost' = lost
      BY <1>1, <1>3 DEF Applies, Drops, Stream!Handle, Stream!Settled
    <3>2. i = n + 1
      <4>1. CASE i > n + 1
        <5>1. n + 1 \in 1..(i - 1) /\ n + 1 \notin 1..n
          BY <4>1
        <5> QED
          BY <3>1, <5>1
      <4> QED
        BY <3>1, <4>1
    <3> QED
      BY <1>1, <3>1, <3>2
  <2>2. 1..n \union {i} = 1..i /\ i \in 0..Len(log)
    BY <2>1
  <2> QED
    BY <1>2, <2>1, <2>2 DEF SettledPrefix
<1>4. CASE Loses(i)
  <2>1. /\ \A j \in 1..n : j <= i
        /\ tried' = tried /\ lost' = lost \union ((1..i) \ (1..n))
    BY <1>1, <1>4 DEF Loses, Stream!Lose, Stream!Settled
  <2>2. tried' \union lost' = 1..i
    BY <1>1, <2>1
  <2> QED
    BY <1>2, <2>2 DEF SettledPrefix
<1> QED
  BY <1>3, <1>4

(* FollowsInOrder is inductive.                                            *)
LEMMA NextFollows ==
  TypeOK /\ FollowsInOrder /\ [Next]_vars => FollowsInOrder'
<1> SUFFICES ASSUME TypeOK, FollowsInOrder, [Next]_vars
             PROVE  FollowsInOrder'
  OBVIOUS
<1>1. ASSUME NEW i \in 1..Len(log), Applies(i) \/ Drops(i) \/ Loses(i)
      PROVE  FollowsInOrder'
  <2>1. SettledPrefix'
    BY <1>1, SettlesInOrder DEF FollowsInOrder
  <2>2. CASE Drops(i) \/ Loses(i)
    <3>1. log' = log /\ assigned' = assigned /\ applied' = applied
      BY <2>2 DEF Drops, Loses, Stream!Handle, Stream!Lose, storeVars
    <3> QED
      BY <2>1, <3>1 DEF FollowsInOrder, EngineFollowsDecisions
  <2> QED
    BY <1>1, <2>1, <2>2, AppliesInOrder DEF FollowsInOrder
<1>2. CASE ~ \E i \in 1..Len(log) : Applies(i) \/ Drops(i) \/ Loses(i)
  <2>1. applied \subseteq 1..Len(log)
    BY DEF TypeOK, StreamTypeOK
  <2>2. SettledPrefix'
    BY <1>2, OthersKeepEditorTerms DEF FollowsInOrder, SettledPrefix
  <2>3. \A i \in applied : log'[i] = log[i]
    BY <1>2, <2>1, OthersKeepEditorTerms
  <2>4. EngineFollowsDecisions'
    BY <1>2, <2>3, OthersKeepEditorTerms DEF FollowsInOrder, EngineFollowsDecisions
  <2> QED
    BY <2>2, <2>4 DEF FollowsInOrder
<1> QED
  BY <1>1, <1>2

(* Nothing is applied and nothing assigned at first.                       *)
LEMMA InitFollows == Init => FollowsInOrder
<1> SUFFICES ASSUME Init PROVE FollowsInOrder
  OBVIOUS
<1>1. /\ log = <<>> /\ tried = {} /\ lost = {} /\ applied = {}
      /\ assigned = [t \in Term |-> "none"]
  BY DEF Init, Stream!Init
<1>2. SettledPrefix
  <2>1. 0 \in 0..Len(log) /\ 1..0 = {}
    BY <1>1
  <2> QED
    BY <1>1, <2>1 DEF SettledPrefix
<1>3. EngineFollowsDecisions
  BY <1>1 DEF EngineFollowsDecisions
<1> QED
  BY <1>2, <1>3 DEF FollowsInOrder

(* The engine's editor rows are those of the decisions applied, less what  *)
(* a later one replaced, whatever the facet, the runs and the losses.      *)
THEOREM EngineFollows == Spec => []EngineFollowsDecisions
<1>1. FollowsInOrder => EngineFollowsDecisions
  BY DEF FollowsInOrder
<1> QED
  BY <1>1, InitFollows, NextFollows, ReviewTypeCorrect, PTL DEF Spec

(***************************************************************************)
(* One pending proposal per facet.                                         *)
(***************************************************************************)

(* What the classifier's look-up found is still so when it writes: no row  *)
(* of the value, or a row that has the value unless a reviewer decided it. *)
FoundStillHolds ==
  run.step = "write" /\ ~run.sure =>
    IF run.pending = 0 THEN PendingRows(run.value) = {}
    ELSE \/ reviews[run.pending].state \in Decided
         \/ Multi => reviews[run.pending].proposed = run.value

NothingFoundYet == run.step = "find" => run.pending = 0

OneProposal == FoundStillHolds /\ NothingFoundYet /\ OnePendingProposal

(* The classifier stays where it is, or has found nothing.                 *)
RunLooksAtNothingNew ==
  \/ run' = run
  \/ run' = RunRaced
  \/ (run'.step # "write" \/ run'.sure) /\ NothingFoundYet'

(* Such a step keeps the invariant when it makes no row pending and        *)
(* rewrites no pending row.                                                *)
LEMMA ProposalsStay ==
  ASSUME TypeOK, OneProposal, RunLooksAtNothingNew,
         Len(reviews') = Len(reviews),
         \A r \in 1..Len(reviews) : reviews'[r] = reviews[r] \/ reviews'[r].state \in Decided
  PROVE  OneProposal'
<1>1. \A r \in 1..Len(reviews') :
        reviews'[r].state = "pending" => reviews'[r] = reviews[r]
  BY DEF Decided
<1>2. OnePendingProposal'
  BY <1>1 DEF OneProposal, OnePendingProposal
<1>3. CASE (run'.step # "write" \/ run'.sure) /\ NothingFoundYet'
  BY <1>2, <1>3 DEF OneProposal, FoundStillHolds
<1>4. CASE run' = run \/ run' = RunRaced
  <2>1. /\ run'.step = run.step /\ run'.sure = run.sure /\ run'.value = run.value
        /\ run'.pending = run.pending /\ run.pending \in 0..Len(reviews)
    BY <1>4 DEF RunRaced, TypeOK, RunTypeOK
  <2>2. PendingRows(run.value)' \subseteq PendingRows(run.value)
    BY <1>1, <2>1 DEF PendingRows
  <2>3. run.pending # 0 => run.pending \in 1..Len(reviews)
    BY <2>1 DEF TypeOK, StoreTypeOK
  <2> QED
    BY <1>2, <2>1, <2>2, <2>3 DEF OneProposal, FoundStillHolds, NothingFoundYet
<1> QED BY <1>3, <1>4 DEF RunLooksAtNothingNew

(* The classifier finds, then inserts or rewrites.                         *)
LEMMA RunKeepsOneProposal ==
  ASSUME TypeOK, DecidedByEditor, OneProposal, RunStep
  PROVE  OneProposal'
<1>1. CASE RunAborts \/ RunStops \/ RunAssigns
  <2>1. run'.step = "idle" /\ reviews' = reviews
    BY <1>1 DEF RunAborts, RunStops, RunAssigns, NoRun, storeVars
  <2>2. RunLooksAtNothingNew
    BY <2>1 DEF RunLooksAtNothingNew, NothingFoundYet
  <2>3. Len(reviews') = Len(reviews) /\ \A r \in 1..Len(reviews) : reviews'[r] = reviews[r]
    BY <2>1
  <2> QED BY <2>2, <2>3, ProposalsStay
<1>2. ASSUME NEW v \in Term, NEW sure \in BOOLEAN, RunReads(v, sure)
      PROVE  OneProposal'
  <2>1. /\ reviews' = reviews
        /\ run'.step # "write" \/ run'.sure
        /\ run'.pending = 0
    BY <1>2 DEF RunReads, NoRun, storeVars
  <2>2. RunLooksAtNothingNew
    BY <2>1 DEF RunLooksAtNothingNew, NothingFoundYet
  <2>3. Len(reviews') = Len(reviews) /\ \A r \in 1..Len(reviews) : reviews'[r] = reviews[r]
    BY <2>1
  <2> QED BY <2>2, <2>3, ProposalsStay
<1>3. CASE RunFinds
  <2>1. reviews' = reviews /\ run.pending \in 0..Len(reviews)
    BY <1>3 DEF RunFinds, storeVars, TypeOK, RunTypeOK
  <2>2. CASE PendingRows(run.value) = {} /\ run' = [run EXCEPT !.step = "write"]
    <3>1. run'.value = run.value /\ run'.pending = run.pending /\ run'.step = "write"
      BY <2>2 DEF TypeOK, RunTypeOK
    <3>2. run.pending = 0
      BY <1>3 DEF RunFinds, OneProposal, NothingFoundYet
    <3>3. PendingRows(run.value)' = {}
      BY <2>1, <2>2, <3>1 DEF PendingRows
    <3> QED
      BY <2>1, <3>1, <3>2, <3>3
      DEF OneProposal, OnePendingProposal, FoundStillHolds, NothingFoundYet
  <2>3. ASSUME NEW r \in PendingRows(run.value),
               run' = [run EXCEPT !.step = "write", !.pending = r]
        PROVE  OneProposal'
    <3>1. /\ run'.value = run.value /\ run'.pending = r /\ r \in 1..Len(reviews)
          /\ run'.step = "write"
      BY <2>3 DEF TypeOK, RunTypeOK, PendingRows
    <3>2. r # 0 /\ (Multi => reviews[r].proposed = run.value)
      BY <3>1 DEF PendingRows, TypeOK, StoreTypeOK
    <3> QED
      BY <2>1, <3>1, <3>2
      DEF OneProposal, OnePendingProposal, FoundStillHolds, NothingFoundYet
  <2> QED BY <1>3, <2>2, <2>3 DEF RunFinds
<1>4. CASE RunQueues
  <2>0. run'.step = "idle"
    BY <1>4 DEF RunQueues, NoRun
  <2>1. run.step = "write" /\ ~run.sure /\ run.pending \in 0..Len(reviews)
    BY <1>4 DEF RunQueues, TypeOK, RunTypeOK
  <2>2. CASE run.pending = 0
    <3>1. /\ NewRow \in Row /\ NewRow.proposed = run.value
          /\ reviews' = Append(reviews, NewRow)
      BY <1>4, <2>2 DEF RunQueues, TypeOK, RunTypeOK, NewRow, Row, Value
    <3>2. /\ Len(reviews') = Len(reviews) + 1 /\ reviews'[Len(reviews) + 1] = NewRow
          /\ \A r \in 1..Len(reviews) : reviews'[r] = reviews[r]
          /\ Len(reviews) \in Nat
      BY <3>1, AppendProperties DEF TypeOK, StoreTypeOK
    <3>3. PendingRows(run.value) = {}
      BY <2>1, <2>2 DEF OneProposal, FoundStillHolds
    <3>4. \A r \in 1..Len(reviews) :
            ~(reviews[r].state = "pending" /\ (Multi => reviews[r].proposed = NewRow.proposed))
      BY <3>1, <3>3 DEF PendingRows
    <3>5. OnePendingProposal'
      <4> SUFFICES ASSUME NEW r \in 1..Len(reviews'), NEW q \in 1..Len(reviews'),
                          reviews'[r].state = "pending", reviews'[q].state = "pending",
                          Multi => reviews'[r].proposed = reviews'[q].proposed
                   PROVE  r = q
        BY DEF OnePendingProposal
      <4>1. CASE r \in 1..Len(reviews) /\ q \in 1..Len(reviews)
        BY <3>2, <4>1 DEF OneProposal, OnePendingProposal
      <4>2. CASE r = Len(reviews) + 1 /\ q \in 1..Len(reviews)
        BY <3>2, <3>4, <4>2
      <4>3. CASE q = Len(reviews) + 1 /\ r \in 1..Len(reviews)
        BY <3>2, <3>4, <4>3
      <4> QED BY <3>2, <4>1, <4>2, <4>3
    <3> QED BY <2>0, <3>5 DEF OneProposal, FoundStillHolds, NothingFoundYet
  <2>3. CASE run.pending # 0
    <3> DEFINE p == run.pending
    <3>1. p \in 1..Len(reviews) /\ reviews[p] \in Row
      BY <2>1, <2>3, ElementOfSeq DEF TypeOK, StoreTypeOK
    <3>2. /\ reviews' = [reviews EXCEPT ![p] = Reproposed(reviews[p])]
          /\ ~Refuses(reviews[p], Reproposed(reviews[p]))
      BY <1>4, <2>3 DEF RunQueues
    <3>3. reviews[p].state = "pending"
      BY <3>1, <3>2 DEF Refuses, Reproposed, DecidedByEditor, Row, Decided
    <3>4. Multi => reviews[p].proposed = run.value
      BY <2>1, <2>3, <3>3 DEF OneProposal, FoundStillHolds, Decided
    <3>5. /\ Reproposed(reviews[p]).state = reviews[p].state
          /\ Multi => Reproposed(reviews[p]).proposed = reviews[p].proposed
      BY <3>1, <3>4 DEF Reproposed, Row
    <3>6. /\ Len(reviews') = Len(reviews)
          /\ \A q \in 1..Len(reviews) :
                reviews'[q] = IF q = p THEN Reproposed(reviews[q]) ELSE reviews[q]
      BY <3>2, ElementOfSeq DEF TypeOK, StoreTypeOK
    <3> HIDE DEF p
    <3>7. \A q \in 1..Len(reviews) :
            /\ reviews'[q].state = reviews[q].state
            /\ Multi => reviews'[q].proposed = reviews[q].proposed
      BY <3>1, <3>5, <3>6
    <3>8. OnePendingProposal'
      BY <3>6, <3>7 DEF OneProposal, OnePendingProposal
    <3> QED BY <2>0, <3>8 DEF OneProposal, FoundStillHolds, NothingFoundYet
  <2> QED BY <2>2, <2>3
<1> QED BY <1>1, <1>2, <1>3, <1>4 DEF RunStep, RunWrites

(* No one else makes a row pending.                                        *)
LEMMA NextKeepsOneProposal ==
  TypeOK /\ DecidedByEditor /\ OneProposal /\ [Next]_vars => OneProposal'
<1> SUFFICES ASSUME TypeOK, DecidedByEditor, OneProposal, [Next]_vars
             PROVE  OneProposal'
  OBVIOUS
<1>1. CASE RunStep
  BY <1>1, RunKeepsOneProposal
<1>2. ASSUME NEW d \in Reviewer, CommitsRow(d)
      PROVE  OneProposal'
  <2>1. desk[d].row \in 1..Len(reviews) /\ HoldsRow(d)
    BY <1>2, DeskFacts DEF CommitsRow, HoldsRow
  <2>2. /\ Len(reviews') = Len(reviews) /\ run' = run
        /\ \A r \in 1..Len(reviews) : reviews'[r] = IF r = desk[d].row THEN desk[d].new ELSE reviews[r]
    BY <1>2, <2>1, ElementOfSeq DEF CommitsRow, TypeOK, StoreTypeOK
  <2>3. desk[d].new.state \in Decided
    BY <2>1 DEF DecidedByEditor
  <2>4. \A r \in 1..Len(reviews) :
          reviews'[r] = reviews[r] \/ reviews'[r].state \in Decided
    BY <2>2, <2>3
  <2>5. RunLooksAtNothingNew
    BY <2>2 DEF RunLooksAtNothingNew
  <2> QED BY <2>2, <2>4, <2>5, ProposalsStay
<1>3. CASE \/ \E v \in Value : EditsField(v)
           \/ \E d \in Reviewer, r \in 1..Len(reviews) : Presses(d, r)
           \/ \E d \in Reviewer :
                \/ ReadsRow(d) \/ WritesField(d) \/ Announces(d) \/ AnnouncesTwice(d) \/ Dies(d)
                \/ \E choice \in Choice : WritesRow(d, choice)
           \/ WorkerStep \/ \E i \in 1..Len(log) : Loses(i)
           \/ UNCHANGED vars
  <2>1. reviews' = reviews /\ (run' = run \/ run' = RunRaced)
    BY <1>3 DEF EditsField, Presses, ReadsRow, WritesField, Announces, AnnouncesTwice, Dies, WritesRow,
                WorkerStep, Applies, Drops, Loses, storeVars, vars
  <2>2. \A r \in 1..Len(reviews) :
          reviews'[r] = reviews[r] \/ reviews'[r].state \in Decided
    BY <2>1
  <2>3. Len(reviews') = Len(reviews)
    BY <2>1
  <2>4. RunLooksAtNothingNew
    BY <2>1 DEF RunLooksAtNothingNew
  <2> QED BY <2>2, <2>3, <2>4, ProposalsStay
<1> QED BY <1>1, <1>2, <1>3 DEF Next, DeskStep

(* "One pending proposal per facet per article": the find-then-insert of   *)
(* _upsert_review keeps it without an index, whatever decisions commit or  *)
(* roll back between its two statements.                                   *)
THEOREM OneProposalPending == Spec => []OnePendingProposal
<1>1. Init => OneProposal
  BY DEF Init, OneProposal, FoundStillHolds, NothingFoundYet, OnePendingProposal, NoRun
<1>2. OneProposal => OnePendingProposal
  BY DEF OneProposal
<1> QED
  BY <1>1, <1>2, NextKeepsOneProposal, DecidedRowsAreEditors, ReviewTypeCorrect, PTL DEF Spec
(***************************************************************************)
(* The article's field and the engine's row.                               *)
(***************************************************************************)

(* Nothing failed and no two decisions were under way at once.             *)
Untroubled == faults = 0 /\ ~crossed

(* One decision at a time, each with a value to write, and the field is    *)
(* that value once the decision has written it.                            *)
DeskTells ==
  /\ \A d, e \in Reviewer : HoldsRow(d) /\ HoldsRow(e) => d = e
  /\ \A d \in Reviewer : desk[d].step \in {"written", "fielded"} => desk[d].new.final # None
  /\ \A d \in Reviewer :
       desk[d].step = "fielded" /\ owner = "decision" => field = desk[d].new.final

(* Between decisions the newest event tells the field's value.             *)
LogTells ==
  owner = "decision" /\ (\A d \in Reviewer : desk[d].step # "fielded")
    => log # <<>> /\ log[Len(log)].value = field /\ field # None

(* An event names the term of its value or none, and only a usable event   *)
(* is applied.                                                             *)
EventsMatch == \A i \in 1..Len(log) : log[i].term \in {log[i].value, None}
AppliedIsUsable == \A i \in applied : Usable(log[i])

Told ==
  /\ EventsMatch
  /\ AppliedIsUsable
  /\ owner = "decision" => HasField
  /\ Untroubled => DeskTells /\ LogTells

(* A failure is counted and two decisions that crossed are remembered.     *)
LEMMA TroubleStays ==
  ASSUME TypeOK, [Next]_vars, Untroubled'
  PROVE  Untroubled
<1>1. faults \in Nat /\ crossed \in BOOLEAN
  BY ReviewAssumption DEF TypeOK, StreamTypeOK
<1>2. (faults' = faults \/ faults' = faults + 1) /\ (crossed => crossed')
  <2>1. CASE RunStep
    <3>1. CASE RunAssigns
      BY <3>1 DEF RunAssigns, troubleVars
    <3>2. CASE RunQueues
      BY <3>2 DEF RunQueues, troubleVars
    <3>3. ASSUME NEW v \in Term, NEW sure \in BOOLEAN, RunReads(v, sure)
          PROVE  faults' = faults /\ crossed' = crossed
      BY <3>3 DEF RunReads, troubleVars
    <3>4. CASE RunFinds
      BY <3>4 DEF RunFinds, troubleVars
    <3>5. CASE RunAborts \/ RunStops
      BY <3>5 DEF RunAborts, RunStops, troubleVars
    <3> QED BY <2>1, <3>1, <3>2, <3>3, <3>4, <3>5 DEF RunStep, RunWrites
  <2>2. ASSUME NEW d \in Reviewer, DeskStep(d) \/ AnnouncesTwice(d) \/ Dies(d)
        PROVE  (faults' = faults \/ faults' = faults + 1) /\ (crossed => crossed')
    <3>1. ASSUME NEW choice \in Choice, WritesRow(d, choice)
          PROVE  faults' = faults /\ (crossed => crossed')
      <4>1. faults' = faults
        BY <3>1 DEF WritesRow
      <4>2. crossed => crossed'
        BY <3>1, Zenon DEF WritesRow
      <4> QED BY <4>1, <4>2
    <3>2. CASE ReadsRow(d) \/ CommitsRow(d)
      BY <3>2 DEF ReadsRow, CommitsRow, troubleVars
    <3>3. CASE WritesField(d)
      BY <3>3 DEF WritesField, Fault
    <3>4. CASE Announces(d)
      BY <3>4 DEF Announces, Fault
    <3>5. CASE AnnouncesTwice(d) \/ Dies(d)
      BY <3>5 DEF AnnouncesTwice, Dies, Fault
    <3> QED BY <2>2, <3>1, <3>2, <3>3, <3>4, <3>5 DEF DeskStep
  <2>3. CASE \/ \E v \in Value : EditsField(v)
             \/ \E d \in Reviewer, r \in 1..Len(reviews) : Presses(d, r)
             \/ WorkerStep \/ \E i \in 1..Len(log) : Loses(i) \/ UNCHANGED vars
    BY <2>3 DEF EditsField, Presses, WorkerStep, Applies, Drops, Loses, Fault, troubleVars, vars
  <2> QED BY <2>1, <2>2, <2>3 DEF Next, vars, troubleVars
<1> QED BY <1>1, <1>2 DEF Untroubled

(* A step that publishes nothing, takes no desk to a row and moves the     *)
(* field, if it does, for somebody who is not a reviewer.                  *)
LEMMA TellsStay ==
  ASSUME TypeOK, Told, [Next]_vars, log' = log,
         \/ applied' = applied
         \/ \E i \in 1..Len(log) : Usable(log[i]) /\ applied' = applied \union {i},
         \/ field' = field /\ owner' = owner
         \/ owner' # "decision",
         \A d \in Reviewer :
           \/ desk'[d] = desk[d]
           \/ desk[d].step # "fielded" /\ ~HoldsRow(d)'
  PROVE  Told'
<1>1. EventsMatch' /\ AppliedIsUsable' /\ (owner' = "decision" => HasField)
  BY DEF Told, EventsMatch, AppliedIsUsable, Usable
<1>2. ASSUME Untroubled' PROVE DeskTells' /\ LogTells'
  <2>1. DeskTells /\ LogTells
    BY <1>2, TroubleStays DEF Told
  <2>2. \A d \in Reviewer : HoldsRow(d)' => desk'[d] = desk[d] /\ HoldsRow(d)
    BY DEF HoldsRow
  <2>3. DeskTells'
    BY <2>1, <2>2 DEF DeskTells, HoldsRow
  <2>4. \A d \in Reviewer : desk[d].step = "fielded" => desk'[d].step = "fielded"
    OBVIOUS
  <2>5. LogTells'
    BY <2>1, <2>4 DEF LogTells
  <2> QED BY <2>3, <2>5
<1> QED BY <1>1, <1>2 DEF Told

(* A run that moves the field takes it over.                               *)
LEMMA RunTakesField ==
  ASSUME RunStep
  PROVE  (field' = field /\ owner' = owner) \/ owner' # "decision"
  BY DEF RunStep, RunReads, RunFinds, RunWrites, RunAssigns, RunQueues, RunAborts, RunStops,
         MoveField, storeVars

(* A decision is written: alone, and with a value.                         *)
LEMMA WritesRowTells ==
  ASSUME TypeOK, Told, [Next]_vars, Sentinel # None,
         NEW d \in Reviewer, NEW choice \in Choice, WritesRow(d, choice)
  PROVE  Told'
<1> DEFINE new == Outcome(desk[d].old, choice)
           to == [step |-> IF new.state = desk[d].old.state THEN "announced" ELSE "written",
                  row |-> desk[d].row, new |-> new]
<1>1. /\ log' = log /\ applied' = applied /\ field' = field /\ owner' = owner
      /\ desk[d].step = "read" /\ desk[d].old \in Row
  BY DeskFacts DEF WritesRow, streamVars, storeVars
<1>2. CASE desk' = [desk EXCEPT ![d] = Away]
  <2>1. /\ desk'[d] = Away
        /\ \A e \in Reviewer : e # d => desk'[e] = desk[e]
    BY <1>2 DEF TypeOK, DeskTypeOK
  <2>2. ~HoldsRow(d)'
    BY <2>1 DEF HoldsRow, Away
  <2>3. \A e \in Reviewer : desk'[e] = desk[e] \/ (desk[e].step # "fielded" /\ ~HoldsRow(e)')
    <3> TAKE e \in Reviewer
    <3>1. CASE e = d
      BY <1>1, <2>2, <3>1
    <3>2. CASE e # d
      BY <2>1, <3>2
    <3> QED BY <3>1, <3>2
  <2> QED BY <1>1, <2>3, TellsStay
<1>3. CASE desk' = [desk EXCEPT ![d] = to]
  <2>1. /\ desk'[d] = to
        /\ \A e \in Reviewer : e # d => desk'[e] = desk[e]
    BY <1>3 DEF TypeOK, DeskTypeOK
  <2>2. new.state # desk[d].old.state => new.final # None
    BY <1>1, ReviewAssumption DEF Outcome, Choice, Row, Decided, Value
  <2>3. EventsMatch' /\ AppliedIsUsable' /\ (owner' = "decision" => HasField)
    BY <1>1 DEF Told, EventsMatch, AppliedIsUsable, Usable
  <2>4. ASSUME Untroubled' PROVE DeskTells' /\ LogTells'
    <3>1. DeskTells /\ LogTells
      BY <2>4, TroubleStays DEF Told
    <3>2. ~Locked(desk[d].row) /\ \A e \in Reviewer : HoldsRow(e) => desk[e].row = desk[d].row
      BY <2>4 DEF WritesRow, Untroubled
    <3>3. \A e \in Reviewer : ~HoldsRow(e)
      BY <3>2 DEF Locked
    <3>4. \A e \in Reviewer : e # d => ~HoldsRow(e)'
      BY <2>1, <3>3 DEF HoldsRow
    <3>5. to.step \in {"written", "announced"} /\ (to.step = "written" => to.new.final # None)
      <4> HIDE DEF new
      <4> QED BY <2>2
    <3> HIDE DEF to
    <3>6. DeskTells'
      BY <2>1, <3>4, <3>5 DEF DeskTells, HoldsRow
    <3>7. \A e \in Reviewer : desk[e].step # "fielded"
      BY <3>3 DEF HoldsRow
    <3>8. LogTells'
      BY <1>1, <3>1, <3>7 DEF LogTells
    <3> QED BY <3>6, <3>8
  <2> QED BY <2>3, <2>4 DEF Told
<1> QED BY <1>2, <1>3 DEF WritesRow

(* The article is updated with the decision's value.                       *)
LEMMA WritesFieldTells ==
  ASSUME TypeOK, Told, [Next]_vars, NEW d \in Reviewer, WritesField(d)
  PROVE  Told'
<1>1. /\ log' = log /\ applied' = applied /\ desk[d].step = "written"
      /\ desk' = [desk EXCEPT ![d].step = "fielded"]
  BY DEF WritesField, streamVars
<1>2. desk[d] \in [step : {"written", "fielded", "announced"}, row : 1..MaxRows, new : Row]
  BY <1>1 DEF TypeOK, DeskTypeOK, DeskState, Away
<1>3. /\ desk'[d].step = "fielded" /\ desk'[d].new = desk[d].new
      /\ \A e \in Reviewer : e # d => desk'[e] = desk[e]
  BY <1>1, <1>2 DEF TypeOK, DeskTypeOK
<1>4. EventsMatch' /\ AppliedIsUsable' /\ (owner' = "decision" => HasField)
  BY <1>1 DEF Told, EventsMatch, AppliedIsUsable, Usable, WritesField
<1>5. ASSUME Untroubled' PROVE DeskTells' /\ LogTells'
  <2>1. DeskTells /\ Untroubled
    BY <1>5, TroubleStays DEF Told
  <2>2. desk[d].new.final # None /\ HoldsRow(d)
    BY <1>1, <2>1 DEF DeskTells, HoldsRow
  <2>3. owner' = "decision" => field' = desk[d].new.final
    <3>1. CASE HasField
      <4>1. ~Fault
        BY <1>5, <2>1, ReviewAssumption DEF Fault, Untroubled
      <4> QED BY <2>2, <3>1, <4>1 DEF WritesField
    <3>2. CASE ~HasField
      BY <3>2 DEF WritesField, Told
    <3> QED BY <3>1, <3>2
  <2>4. \A e \in Reviewer : HoldsRow(e)' => HoldsRow(e)
    BY <1>3, <2>2 DEF HoldsRow
  <2>5. \A e \in Reviewer : HoldsRow(e)' => e = d
    BY <2>1, <2>2, <2>4 DEF DeskTells
  <2>6. DeskTells'
    BY <1>3, <2>2, <2>3, <2>5 DEF DeskTells, HoldsRow
  <2>7. LogTells'
    BY <1>3 DEF LogTells
  <2> QED BY <2>6, <2>7
<1> QED BY <1>4, <1>5 DEF Told

(* The event that is published tells the field's value.                    *)
LEMMA AnnouncesTells ==
  ASSUME TypeOK, Told, [Next]_vars, NEW d \in Reviewer, Announces(d) \/ AnnouncesTwice(d)
  PROVE  Told'
<1> DEFINE event == Announcement(desk[d].new)
<1>1. /\ applied' = applied /\ field' = field /\ owner' = owner /\ desk[d].step = "fielded"
      /\ log' = Append(log, event) \/ log' = log
      /\ desk' = desk \/ desk' = [desk EXCEPT ![d].step = "announced"]
  BY DEF Announces, AnnouncesTwice, storeVars, streamVars, Stream!Publish
<1>2. desk[d] \in [step : {"written", "fielded", "announced"}, row : 1..MaxRows, new : Row]
  BY <1>1 DEF TypeOK, DeskTypeOK, DeskState, Away
<1>3. event \in Event /\ event.value = desk[d].new.final /\ event.term \in {event.value, None}
  <2>1. desk[d].new \in Row
    BY <1>2
  <2>2. /\ desk[d].new.final \in Value /\ desk[d].new.term \in Term
        /\ CmsKnows \subseteq Term
    BY <2>1, ReviewAssumption DEF Row
  <2> QED BY <2>2 DEF Announcement, Event, Value
<1>4. log \in Seq(Event) /\ applied \subseteq 1..Len(log)
  BY DEF TypeOK, StreamTypeOK
<1> HIDE DEF event
<1>5. /\ \A i \in 1..Len(log) : log'[i] = log[i]
      /\ \A i \in 1..Len(log') : i \in 1..Len(log) \/ log'[i] = event
  BY <1>1, <1>3, <1>4, AppendProperties
<1>6. EventsMatch' /\ AppliedIsUsable' /\ (owner' = "decision" => HasField)
  BY <1>1, <1>3, <1>4, <1>5 DEF Told, EventsMatch, AppliedIsUsable, Usable
<1>7. ASSUME Untroubled' PROVE DeskTells' /\ LogTells'
  <2>1. DeskTells /\ Untroubled
    BY <1>7, TroubleStays DEF Told
  <2>2. /\ log' = Append(log, event)
        /\ desk' = [desk EXCEPT ![d].step = "announced"]
    <3>1. ~Fault
      BY <1>7, <2>1, ReviewAssumption DEF Fault, Untroubled
    <3> QED BY <3>1 DEF Announces, AnnouncesTwice, Stream!Publish, event
  <2>3. /\ desk'[d].step = "announced"
        /\ \A e \in Reviewer : e # d => desk'[e] = desk[e]
    BY <1>2, <2>2 DEF TypeOK, DeskTypeOK
  <2>4. \A e \in Reviewer : HoldsRow(e)' => e = d
    BY <1>1, <2>1, <2>3 DEF DeskTells, HoldsRow
  <2>5. DeskTells'
    BY <2>3, <2>4 DEF DeskTells, HoldsRow
  <2>6. log' # <<>> /\ log'[Len(log')] = event
    BY <1>3, <1>4, <2>2, AppendProperties
  <2>7. desk[d].new.final # None /\ (owner = "decision" => field = desk[d].new.final)
    BY <1>1, <2>1 DEF DeskTells
  <2>8. LogTells'
    BY <1>1, <1>3, <2>6, <2>7 DEF LogTells
  <2> QED BY <2>5, <2>8
<1> QED BY <1>6, <1>7 DEF Told

(* Every step keeps what is told.                                          *)
LEMMA NextTells ==
  Sentinel # None /\ TypeOK /\ Told /\ [Next]_vars => Told'
<1> SUFFICES ASSUME Sentinel # None, TypeOK, Told, [Next]_vars
             PROVE  Told'
  OBVIOUS
<1>1. CASE RunStep
  <2>1. log' = log /\ applied' = applied /\ desk' = desk
    BY <1>1 DEF RunStep, RunReads, RunFinds, RunWrites, RunAssigns, RunQueues, RunAborts, RunStops,
                streamVars
  <2> QED BY <1>1, <2>1, RunTakesField, TellsStay
<1>2. ASSUME NEW d \in Reviewer,
             \/ \E r \in 1..Len(reviews) : Presses(d, r)
             \/ ReadsRow(d) \/ CommitsRow(d)
      PROVE  Told'
  <2>1. log' = log /\ applied' = applied /\ field' = field /\ owner' = owner
    BY <1>2 DEF Presses, ReadsRow, CommitsRow, streamVars, storeVars
  <2>2. desk[d].step \in {"away", "pressed", "announced"}
    BY <1>2 DEF Presses, ReadsRow, CommitsRow
  <2>3. \E to \in DeskState :
          to.step \in {"away", "pressed", "read"} /\ desk' = [desk EXCEPT ![d] = to]
    <3>1. CASE \E r \in 1..Len(reviews) : Presses(d, r)
      <4>1. PICK r \in 1..Len(reviews) : Presses(d, r)
        BY <3>1
      <4>2. [step |-> "pressed", row |-> r] \in DeskState
        <5>1. r \in 1..MaxRows
          BY ReviewAssumption, LenProperties DEF TypeOK, StoreTypeOK
        <5> QED BY <5>1 DEF DeskState
      <4> QED BY <4>1, <4>2 DEF Presses
    <3>2. CASE ReadsRow(d)
      <4>1. desk[d].row \in 1..MaxRows /\ reviews[desk[d].row] \in Row
        BY <3>2, DeskFacts, ElementOfSeq DEF ReadsRow, TypeOK, StoreTypeOK
      <4>2. [step |-> "read", row |-> desk[d].row, old |-> reviews[desk[d].row]] \in DeskState
        BY <4>1 DEF DeskState
      <4> QED BY <3>2, <4>2 DEF ReadsRow
    <3>3. CASE CommitsRow(d)
      BY <3>3 DEF CommitsRow, DeskState, Away
    <3> QED BY <1>2, <3>1, <3>2, <3>3
  <2>4. \A e \in Reviewer : desk'[e] = desk[e] \/ (desk[e].step # "fielded" /\ ~HoldsRow(e)')
    <3> TAKE e \in Reviewer
    <3>1. CASE e = d
      <4>1. desk'[d].step \in {"away", "pressed", "read"}
        BY <2>3 DEF TypeOK, DeskTypeOK
      <4> QED BY <2>2, <3>1, <4>1 DEF HoldsRow
    <3>2. CASE e # d
      BY <2>3, <3>2 DEF TypeOK, DeskTypeOK
    <3> QED BY <3>1, <3>2
  <2> QED BY <2>1, <2>4, TellsStay
<1>3. ASSUME NEW d \in Reviewer, Dies(d)
      PROVE  Told'
  <2>1. /\ log' = log /\ applied' = applied /\ owner' = owner
        /\ faults' = faults + 1 /\ faults \in Nat
    BY <1>3, ReviewAssumption DEF Dies, Fault, streamVars, storeVars, TypeOK, StreamTypeOK
  <2> QED BY <2>1 DEF Told, EventsMatch, AppliedIsUsable, Usable, Untroubled
<1>4. CASE \/ \E v \in Value : EditsField(v)
           \/ WorkerStep \/ \E i \in 1..Len(log) : Loses(i)
           \/ UNCHANGED vars
  <2>1. /\ log' = log /\ desk' = desk
        /\ (field' = field /\ owner' = owner) \/ owner' # "decision"
    BY <1>4 DEF EditsField, WorkerStep, Applies, Drops, Loses, Stream!Handle, Stream!Lose,
                storeVars, streamVars, vars
  <2>2. \/ applied' = applied
        \/ \E i \in 1..Len(log) : Usable(log[i]) /\ applied' = applied \union {i}
    BY <1>4 DEF EditsField, WorkerStep, Applies, Drops, Loses, vars
  <2> QED BY <2>1, <2>2, TellsStay
<1> QED
  BY <1>1, <1>2, <1>3, <1>4, WritesRowTells, WritesFieldTells, AnnouncesTells DEF Next, DeskStep

(* For a facet with an unknown term, field and engine meet: once every     *)
(* decision announced is applied, none is under way, nothing failed and no *)
(* two crossed, the value a decision last wrote on the article is the      *)
(* engine's editor row.  (Without such a term a decision may retract: the  *)
(* engine's rows go and the field keeps its value.)                        *)
THEOREM FieldMeetsEngineForAll ==
  ASSUME Sentinel # None
  PROVE  Spec => []FieldMeetsEngine
<1>1. Init => Told
  <2> SUFFICES ASSUME Init PROVE Told
    OBVIOUS
  <2>1. log = <<>> /\ applied = {} /\ owner = "run" /\ desk = [d \in Reviewer |-> Away]
    BY DEF Init, Stream!Init
  <2> QED
    BY <2>1 DEF Told, EventsMatch, AppliedIsUsable, DeskTells, LogTells, HoldsRow, Away
<1>2. TypeOK /\ EngineFollowsDecisions /\ Told => FieldMeetsEngine
  <2> SUFFICES ASSUME TypeOK, EngineFollowsDecisions, Told,
                      faults = 0 /\ ~crossed /\ Busy = {} /\ applied = 1..Len(log) /\ owner = "decision"
               PROVE  assigned[field] = "editor"
    BY DEF FieldMeetsEngine
  <2> DEFINE n == Len(log)
  <2>1. \A d \in Reviewer : desk[d].step # "fielded"
    BY DEF Busy
  <2>2. log # <<>> /\ log[n].value = field /\ field # None
    BY <2>1 DEF Told, Untroubled, LogTells
  <2>3. n \in applied /\ n \in 1..Len(log) /\ \A j \in applied : ~(j > n)
    BY <2>2, EmptySeq DEF TypeOK, StreamTypeOK
  <2>4. log[n].term = field
    BY <2>2, <2>3 DEF Told, EventsMatch, AppliedIsUsable, Usable
  <2>5. field \in Term
    BY <2>2 DEF TypeOK, StoreTypeOK, Value
  <2> QED BY <2>3, <2>4, <2>5 DEF EngineFollowsDecisions
<1> QED
  BY <1>1, <1>2, NextTells, ReviewTypeCorrect, EngineFollows, PTL DEF Spec
=============================================================================
