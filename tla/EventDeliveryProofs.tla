------------------------ MODULE EventDeliveryProofs -------------------------
(***************************************************************************)
(* EventDelivery proved for every set of events and every value of the     *)
(* bounds: the consumer's inductive invariant, and that the pipeline keeps *)
(* the contract of AtMostOnceLog.                                          *)
(***************************************************************************)
EXTENDS EventDelivery, FiniteSetTheorems, TLAPS

(* The inductive invariant: the batch a thread holds is a contiguous,      *)
(* untried and still pending end of what was handed out, and whatever is   *)
(* no longer pending was tried.                                            *)
DeliveryInv ==
  /\ DeliveryTypeOK
  /\ BatchIsTheUntriedSuffix
  /\ AckedWasTried

(* No thread, no message in hand and no batch when the process starts.     *)
LEMMA InitInv == DeliveryInit => DeliveryInv
  BY DeliveryAssumption
     DEF DeliveryInit, DeliveryInv, DeliveryTypeOK, ThreadState,
         BatchIsTheUntriedSuffix, AckedWasTried

(* XADD only makes the log longer.                                         *)
LEMMA AnnounceInv ==
  ASSUME DeliveryInv, NEW e \in Event, Announce(e)
  PROVE  DeliveryInv'
<1>1. Len(stream') = Len(stream) + 1 /\ stream' \in Seq(Event)
  BY DEF DeliveryInv, DeliveryTypeOK, Announce
<1> QED
  BY <1>1 DEF DeliveryInv, DeliveryTypeOK, BatchIsTheUntriedSuffix, AckedWasTried, Announce

(* What XREADGROUP hands out is newer than everything tried.               *)
LEMMA ReadInv ==
  ASSUME DeliveryInv, NEW last \in Nat, Read(last)
  PROVE  DeliveryInv'
<1> USE DEF DeliveryInv, Read, HandOut
<1>1. DeliveryTypeOK'
  BY DEF DeliveryTypeOK, ThreadState
<1>2. BatchIsTheUntriedSuffix'
  <2>1. delivered + 1 \in todo' /\ todo' = (delivered + 1)..delivered'
    BY DEF DeliveryTypeOK
  <2> QED
    BY <2>1 DEF DeliveryTypeOK, BatchIsTheUntriedSuffix, ThreadState
<1>3. AckedWasTried'
  BY DEF DeliveryTypeOK, AckedWasTried
<1> QED
  BY <1>1, <1>2, <1>3

(* A lost reply leaves the entries pending and the thread without a batch. *)
LEMMA ReadReplyLostInv ==
  ASSUME DeliveryInv, NEW last \in Nat, ReadReplyLost(last)
  PROVE  DeliveryInv'
  BY DeliveryAssumption
     DEF DeliveryInv, ReadReplyLost, HandOut, Fault, DeliveryTypeOK, ThreadState,
         BatchIsTheUntriedSuffix, AckedWasTried

(* Taking the oldest id of the batch leaves the rest of it contiguous.     *)
LEMMA TakeInv ==
  ASSUME DeliveryInv, NEW i \in todo, Take(i)
  PROVE  DeliveryInv'
<1> USE DEF DeliveryInv, Take
<1>1. DeliveryTypeOK'
  BY DEF DeliveryTypeOK, ThreadState
<1>2. PICK k \in todo : todo = k..delivered
  BY DEF BatchIsTheUntriedSuffix
<1>3. i = k
  BY <1>2 DEF DeliveryTypeOK
<1>4. todo' = (i + 1)..delivered'
  BY <1>2, <1>3 DEF DeliveryTypeOK
<1>5. todo' # {} => i + 1 \in todo'
  BY <1>4 DEF DeliveryTypeOK
<1>6. BatchIsTheUntriedSuffix'
  BY <1>4, <1>5 DEF DeliveryTypeOK, BatchIsTheUntriedSuffix
<1>7. AckedWasTried'
  BY DEF DeliveryTypeOK, AckedWasTried
<1> QED
  BY <1>1, <1>6, <1>7

(* What is acknowledged was in hand, hence tried.                          *)
LEMMA AckInv ==
  ASSUME DeliveryInv, Ack
  PROVE  DeliveryInv'
  BY DEF DeliveryInv, Ack, DeliveryTypeOK, ThreadState, BatchIsTheUntriedSuffix, AckedWasTried

(* Starting a process and returning from a handler move the thread only.   *)
LEMMA ThreadOnlyInv ==
  ASSUME DeliveryInv, Start \/ Settle
  PROVE  DeliveryInv'
  BY DEF DeliveryInv, Start, Settle, DeliveryTypeOK, ThreadState, BatchIsTheUntriedSuffix,
         AckedWasTried

(* A thread that dies or is stopped drops its batch.                       *)
LEMMA DropInv ==
  ASSUME DeliveryInv, RedisError \/ Stop
  PROVE  DeliveryInv'
<1>1. /\ todo' = {} /\ hand' = 0 /\ thread' \in {"dead", "stopped"}
      /\ faults' \in 0..MaxFaults
      /\ UNCHANGED <<stream, delivered, pel, tried>>
  BY DeliveryAssumption DEF RedisError, Stop, Fault, DeliveryInv, DeliveryTypeOK
<1>2. DeliveryTypeOK'
  BY <1>1 DEF DeliveryInv, DeliveryTypeOK, ThreadState
<1>3. BatchIsTheUntriedSuffix'
  BY <1>1 DEF BatchIsTheUntriedSuffix
<1>4. AckedWasTried'
  BY <1>1 DEF DeliveryInv, AckedWasTried
<1> QED
  BY <1>2, <1>3, <1>4 DEF DeliveryInv

(* Every step keeps the invariant, one lemma per action.                   *)
LEMMA NextInv == DeliveryInv /\ [DeliveryNext]_deliveryVars => DeliveryInv'
<1> SUFFICES ASSUME DeliveryInv, [DeliveryNext]_deliveryVars
             PROVE  DeliveryInv'
  OBVIOUS
<1>1. CASE \E e \in Event : Announce(e)
  BY <1>1, AnnounceInv
<1>2. CASE Start
  BY <1>2, ThreadOnlyInv
<1>3. CASE ThreadStep
  <2>1. CASE \E last \in 1..MaxStream : Read(last)
    BY <2>1, ReadInv, DeliveryAssumption
  <2>2. CASE \E i \in todo : Take(i)
    BY <2>2, TakeInv
  <2>3. CASE Settle
    BY <2>3, ThreadOnlyInv
  <2>4. CASE Ack
    BY <2>4, AckInv
  <2> QED
    BY <1>3, <2>1, <2>2, <2>3, <2>4 DEF ThreadStep
<1>4. CASE FaultStep
  <2>1. CASE \E last \in 1..MaxStream : ReadReplyLost(last)
    BY <2>1, ReadReplyLostInv, DeliveryAssumption
  <2>2. CASE RedisError \/ Stop
    BY <2>2, DropInv
  <2> QED
    BY <1>4, <2>1, <2>2 DEF FaultStep
<1>5. CASE UNCHANGED deliveryVars
  BY <1>5 DEF deliveryVars, DeliveryInv, DeliveryTypeOK, BatchIsTheUntriedSuffix, AckedWasTried
<1> QED
  BY <1>1, <1>2, <1>3, <1>4, <1>5 DEF DeliveryNext

(* The consumer's invariant holds for every number of events and failures. *)
THEOREM DeliveryInvariant == DeliverySpec => []DeliveryInv
  BY InitInv, NextInv, PTL DEF DeliverySpec

(* Type correctness of the pipeline.                                       *)
THEOREM DeliveryTypeCorrect == DeliverySpec => []DeliveryTypeOK
<1>1. DeliveryInv => DeliveryTypeOK
  BY DEF DeliveryInv
<1> QED
  BY <1>1, DeliveryInvariant, PTL

(* The batch in memory is the untried, pending end of what was handed out, *)
(* and nothing the group handed out is acknowledged without being tried.   *)
THEOREM NothingSkippedOrRepeated == DeliverySpec => []NoneSkippedOrRepeated
<1>1. DeliveryInv => NoneSkippedOrRepeated
  BY DEF DeliveryInv, NoneSkippedOrRepeated
<1> QED
  BY <1>1, DeliveryInvariant, PTL

(***************************************************************************)
(* The refinement of AtMostOnceLog.                                        *)
(***************************************************************************)

(* An entry is settled, in the contract's sense, when the cursor is past   *)
(* it and it is not waiting in a batch.                                    *)
LEMMA SettledIsHandedOut ==
  ASSUME DeliveryInv
  PROVE  Contract!Settled = (1..delivered) \ todo
<1>1. /\ tried \subseteq 1..delivered
      /\ pel \subseteq 1..delivered
      /\ (1..delivered) \ pel \subseteq tried
  BY DEF DeliveryInv, DeliveryTypeOK, AckedWasTried
<1>2. todo \cap tried = {}
  BY DEF DeliveryInv, DeliveryTypeOK, BatchIsTheUntriedSuffix
<1>3. hand \in tried \/ hand = 0
  BY DEF DeliveryInv, BatchIsTheUntriedSuffix
<1>4. Contract!Settled = tried \union (pel \ (todo \union {hand}))
  BY DEF Contract!Settled, Stranded
<1>5. CASE hand \in tried
  BY <1>1, <1>2, <1>4, <1>5
<1>6. CASE hand = 0
  <2>1. 0 \notin 1..delivered
    BY DEF DeliveryInv, DeliveryTypeOK
  <2>2. pel \ (todo \union {hand}) = pel \ todo
    BY <1>1, <1>6, <2>1
  <2> QED
    BY <1>1, <1>2, <1>4, <2>2
<1> QED
  BY <1>3, <1>5, <1>6

(* Nothing is lost or tried in an empty log.                               *)
LEMMA InitRefines == DeliveryInit => Contract!Init
  BY DEF DeliveryInit, Contract!Init, Stranded

(* Taking a message is the contract's Handle.                              *)
LEMMA TakeRefines ==
  ASSUME DeliveryInv, NEW i \in todo, Take(i)
  PROVE  i \in 1..Len(stream) /\ Contract!Handle(i)
<1>1. hand = 0 /\ i \in 1..delivered /\ i \notin tried
  BY DEF DeliveryInv, DeliveryTypeOK, BatchIsTheUntriedSuffix, Take
<1>2. Stranded' = Stranded
  BY <1>1 DEF Stranded, Take, DeliveryInv, DeliveryTypeOK
<1>3. (Stranded \ tried)' = Stranded \ tried
  BY <1>2 DEF Stranded, Take
<1>4. i \notin Contract!Settled /\ \A j \in 1..(i - 1) : j \in Contract!Settled
  BY <1>1, SettledIsHandedOut DEF Take, DeliveryInv, DeliveryTypeOK
<1> QED
  BY <1>1, <1>3, <1>4 DEF Contract!Handle, Take, DeliveryInv, DeliveryTypeOK

(* Losing a reply loses the entries it carried.                            *)
LEMMA ReadReplyLostRefines ==
  ASSUME DeliveryInv, NEW last \in Nat, ReadReplyLost(last)
  PROVE  last \in 1..Len(stream) /\ Contract!Lose(last)
<1>1. hand = 0 /\ todo = {} /\ last \in 1..Len(stream)
  BY DEF DeliveryInv, DeliveryTypeOK, BatchIsTheUntriedSuffix, ReadReplyLost, HandOut
<1>2. (1..last) \ Contract!Settled = (delivered + 1)..last
  BY <1>1, SettledIsHandedOut DEF DeliveryInv, DeliveryTypeOK, ReadReplyLost, HandOut
<1>3. (Stranded \ tried)' = (Stranded \ tried) \union ((delivered + 1)..last)
  BY <1>1 DEF Stranded, ReadReplyLost, HandOut, DeliveryInv, DeliveryTypeOK
<1>4. \A j \in Contract!Settled : j <= last
  BY <1>1, SettledIsHandedOut DEF DeliveryInv, DeliveryTypeOK, ReadReplyLost, HandOut
<1> QED
  BY <1>1, <1>2, <1>3, <1>4 DEF Contract!Lose, ReadReplyLost

(* A thread that dies or stops with a batch loses the batch; without one   *)
(* the contract does not see it.                                           *)
LEMMA DropRefines ==
  ASSUME DeliveryInv, RedisError \/ Stop
  PROVE  \/ delivered \in 1..Len(stream) /\ Contract!Lose(delivered)
         \/ UNCHANGED Contract!vars
<1>1. todo' = {} /\ hand' = 0 /\ UNCHANGED <<stream, delivered, pel, tried>>
  BY DEF RedisError, Stop
<1>2. Contract!Settled = (1..delivered) \ todo
  BY SettledIsHandedOut
<1>3. (Stranded \ tried)' = (Stranded \ tried) \union todo
  BY <1>1 DEF Stranded, DeliveryInv, DeliveryTypeOK, BatchIsTheUntriedSuffix
<1>4. CASE todo = {}
  BY <1>1, <1>3, <1>4 DEF Contract!vars
<1>5. CASE todo # {}
  <2>1. delivered \in 1..Len(stream)
    <3>1. PICK i \in todo : i \in 1..delivered
      BY <1>5 DEF DeliveryInv, DeliveryTypeOK
    <3>2. delivered \in 0..Len(stream)
      BY DEF DeliveryInv, DeliveryTypeOK
    <3> QED
      BY <3>1, <3>2
  <2>2. (1..delivered) \ Contract!Settled = todo
    BY <1>2 DEF DeliveryInv, DeliveryTypeOK
  <2> QED
    BY <1>1, <1>2, <1>3, <2>1, <2>2 DEF Contract!Lose, DeliveryInv, DeliveryTypeOK
<1> QED
  BY <1>4, <1>5

(* The other steps of the worker leave what is tried and lost alone.       *)
LEMMA QuietRefines ==
  ASSUME DeliveryInv, Start \/ Settle \/ Ack \/ \E last \in 1..MaxStream : Read(last)
  PROVE  UNCHANGED Contract!vars
<1>1. CASE Start \/ Settle
  BY <1>1 DEF Start, Settle, Contract!vars, Stranded
<1>2. CASE Ack
  <2>1. (Stranded \ tried)' = Stranded \ tried
    BY <1>2 DEF Ack, Stranded, DeliveryInv, DeliveryTypeOK
  <2> QED
    BY <1>2, <2>1 DEF Ack, Contract!vars
<1>3. ASSUME NEW last \in 1..MaxStream, Read(last)
      PROVE  UNCHANGED Contract!vars
  <2>1. hand = 0 /\ todo = {}
    BY <1>3 DEF Read, HandOut, DeliveryInv, BatchIsTheUntriedSuffix
  <2>2. (Stranded \ tried)' = Stranded \ tried
    BY <1>3, <2>1, DeliveryAssumption DEF Read, HandOut, Stranded, DeliveryInv, DeliveryTypeOK
  <2> QED
    BY <1>3, <2>2 DEF Read, HandOut, Contract!vars
<1> QED
  BY <1>1, <1>2, <1>3

(* Every step of the pipeline is a step of the contract or a stutter.      *)
LEMMA NextRefines ==
  DeliveryInv /\ [DeliveryNext]_deliveryVars => [Contract!Next]_(Contract!vars)
<1> SUFFICES ASSUME DeliveryInv, [DeliveryNext]_deliveryVars
             PROVE  [Contract!Next]_(Contract!vars)
  OBVIOUS
<1>1. ASSUME NEW e \in Event, Announce(e)
      PROVE  Contract!Next
  BY <1>1 DEF Announce, Stranded, Contract!Next, Contract!Publish
<1>2. CASE Start \/ Settle \/ Ack \/ \E last \in 1..MaxStream : Read(last)
  BY <1>2, QuietRefines
<1>3. ASSUME NEW i \in todo, Take(i)
      PROVE  Contract!Next
  BY <1>3, TakeRefines DEF Contract!Next
<1>4. ASSUME NEW last \in 1..MaxStream, ReadReplyLost(last)
      PROVE  Contract!Next
  BY <1>4, ReadReplyLostRefines, DeliveryAssumption DEF Contract!Next
<1>5. CASE RedisError \/ Stop
  BY <1>5, DropRefines DEF Contract!Next
<1>6. CASE UNCHANGED deliveryVars
  BY <1>6 DEF deliveryVars, Stranded, Contract!vars
<1> QED
  BY <1>1, <1>2, <1>3, <1>4, <1>5, <1>6 DEF DeliveryNext, ThreadStep, FaultStep

(* The pipeline keeps its contract: in-order, at-most-once, losses for     *)
(* good, whatever the batch size, the number of events and of failures.    *)
THEOREM PipelineKeepsContract == DeliverySpec => KeepsContract
  BY InitRefines, DeliveryInvariant, NextRefines, PTL
     DEF DeliverySpec, KeepsContract, Contract!Spec

(***************************************************************************)
(* What a handler sees that acts on some of the events only.               *)
(***************************************************************************)

(* Ranks grow with the number, strictly at the members of the set.         *)
LEMMA RankCounts ==
  ASSUME NEW m \in Nat, NEW S \in SUBSET (1..m)
  PROVE  /\ IsFiniteSet(S) /\ Cardinality(S) \in Nat
         /\ \A i \in Nat : Rank(S, i) \in 0..Cardinality(S)
         /\ \A i, j \in Nat : i <= j => Rank(S, i) <= Rank(S, j)
         /\ \A i \in Nat, j \in S : i < j => Rank(S, i) < Rank(S, j)
         /\ \A j \in S : Rank(S, j) \in 1..Cardinality(S)
<1> DEFINE Upto(i) == {k \in S : k <= i}
<1>0. \A j \in S : j \in Nat /\ 0 < j
  OBVIOUS
<1>1. IsFiniteSet(S) /\ Cardinality(S) \in Nat
  <2>1. IsFiniteSet(1..m)
    BY FS_Interval
  <2> QED BY <2>1, FS_Subset, FS_CardinalityType
<1>2. ASSUME NEW i \in Nat
      PROVE  IsFiniteSet(Upto(i)) /\ Cardinality(Upto(i)) \in 0..Cardinality(S)
  <2>1. Upto(i) \in SUBSET S
    OBVIOUS
  <2>2. IsFiniteSet(Upto(i)) /\ Cardinality(Upto(i)) <= Cardinality(S)
    BY <1>1, <2>1, FS_Subset
  <2> QED BY <1>1, <2>2, FS_CardinalityType
<1>3. ASSUME NEW i \in Nat, NEW j \in Nat, i <= j
      PROVE  Cardinality(Upto(i)) <= Cardinality(Upto(j))
  <2>1. Upto(i) \in SUBSET Upto(j)
    <3> SUFFICES ASSUME NEW k \in S, k <= i PROVE k <= j
      OBVIOUS
    <3> QED BY <1>0, <1>3
  <2> QED BY <1>2, <2>1, FS_Subset
<1>4. ASSUME NEW i \in Nat, NEW j \in S, i < j
      PROVE  Cardinality(Upto(i)) < Cardinality(Upto(j))
  <2>1. Upto(i) \in SUBSET Upto(j) /\ Upto(i) # Upto(j) /\ j \in Nat
    <3>1. j \in Upto(j) /\ j \notin Upto(i) /\ j \in Nat
      BY <1>0, <1>4
    <3>2. Upto(i) \in SUBSET Upto(j)
      <4> SUFFICES ASSUME NEW k \in S, k <= i PROVE k <= j
        OBVIOUS
      <4> QED BY <1>0, <1>4
    <3> QED BY <3>1, <3>2
  <2>2. Cardinality(Upto(i)) <= Cardinality(Upto(j))
        /\ Cardinality(Upto(i)) # Cardinality(Upto(j))
    BY <1>2, <2>1, FS_Subset
  <2> QED BY <1>2, <2>1, <2>2
<1>5. \A i \in Nat : Rank(S, i) = Cardinality(Upto(i))
  BY DEF Rank
<1> HIDE DEF Upto
<1>6. ASSUME NEW j \in S PROVE Rank(S, j) \in 1..Cardinality(S)
  <2>1. 0 \in Nat /\ j \in Nat /\ 0 < j
    BY <1>0
  <2>2. Cardinality(Upto(0)) < Cardinality(Upto(j))
    BY <1>4, <2>1
  <2> QED BY <1>1, <1>2, <1>5, <2>2, <1>5, <2>1
<1> QED BY <1>1, <1>2, <1>3, <1>4, <1>5, <1>6

(* Two members do not share a rank, and no rank is left out.               *)
LEMMA RankOnto ==
  ASSUME NEW m \in Nat, NEW S \in SUBSET (1..m)
  PROVE  /\ \A i, j \in S : Rank(S, i) = Rank(S, j) => i = j
         /\ \A n \in 1..Cardinality(S) : \E i \in S : Rank(S, i) = n
<1> DEFINE c == Cardinality(S)
           f == [i \in S |-> Rank(S, i)]
<1>0. \A i \in S : i \in Nat
  OBVIOUS
<1>1. IsFiniteSet(S) /\ c \in Nat /\ \A i \in S : i \in Nat /\ Rank(S, i) \in 1..c
  BY <1>0, RankCounts
<1>2. ASSUME NEW i \in S, NEW j \in S, Rank(S, i) = Rank(S, j) PROVE i = j
  <2>0. i \in Nat /\ j \in Nat /\ Rank(S, i) \in Int
    BY <1>1
  <2>1. ~(i < j) /\ ~(j < i)
    <3>1. \A a \in Nat, b \in S : a < b => Rank(S, a) < Rank(S, b)
      BY RankCounts
    <3> QED BY <1>2, <2>0, <3>1
  <2> QED BY <2>0, <2>1
<1>3. f \in Injection(S, 1..c)
  BY <1>1, <1>2 DEF Injection, IsInjective
<1>4. IsFiniteSet(1..c) /\ Cardinality(1..c) = c
  BY <1>1, FS_Interval
<1>5. f \in Surjection(S, 1..c)
  BY <1>3, <1>4, FS_Injection
<1>6. \A n \in 1..c : \E i \in S : f[i] = n
  BY <1>5 DEF Surjection
<1> QED BY <1>2, <1>6

(* Sequences of one length with the same elements are one sequence.        *)
LEMMA SeqsAgree ==
  ASSUME NEW E, NEW s \in Seq(E), NEW t \in Seq(E), Len(s) = Len(t),
         \A n \in 1..Len(s) : s[n] = t[n]
  PROVE  s = t
  OBVIOUS

(* The member of rank n.                                                   *)
LEMMA ChosenByRank ==
  ASSUME NEW m \in Nat, NEW S \in SUBSET (1..m), NEW i \in S
  PROVE  (CHOOSE j \in S : Rank(S, j) = Rank(S, i)) = i
<1>1. \A j \in S : Rank(S, j) = Rank(S, i) => j = i
  BY RankOnto
<1> QED BY <1>1

(* The events kept are a sequence, one for each number kept.               *)
LEMMA ThinnedTyped ==
  ASSUME NEW s \in Seq(Event), NEW S \in SUBSET (1..Len(s))
  PROVE  /\ Thinned(s, S) \in Seq(Event) /\ Len(Thinned(s, S)) = Cardinality(S)
         /\ \A i \in S : Thinned(s, S)[Rank(S, i)] = s[i]
<1>0. Len(s) \in Nat /\ \A i \in S : i \in Nat /\ i \in 1..Len(s) /\ s[i] \in Event
  <2>1. \A i \in S : i \in 1..Len(s)
    OBVIOUS
  <2> QED BY <2>1
<1>a. \A n \in 1..Cardinality(S) : \E i \in S : Rank(S, i) = n
  BY <1>0, RankOnto, Zenon
<1>1. Cardinality(S) \in Nat /\ \A i \in S : Rank(S, i) \in 1..Cardinality(S)
  BY <1>0, RankCounts
<1>2. ASSUME NEW n \in 1..Cardinality(S)
      PROVE  s[CHOOSE i \in S : Rank(S, i) = n] \in Event
  <2>1. PICK i \in S : Rank(S, i) = n
    BY <1>a
  <2>2. (CHOOSE j \in S : Rank(S, j) = n) = i
    BY <1>0, <2>1, ChosenByRank
  <2>3. s[i] \in Event
    BY <1>0
  <2> QED BY <2>2, <2>3
<1>3. Thinned(s, S) \in [1..Cardinality(S) -> Event]
  BY <1>2 DEF Thinned
<1>4. Thinned(s, S) \in Seq(Event) /\ Len(Thinned(s, S)) = Cardinality(S)
  BY <1>1, <1>3
<1>5. ASSUME NEW i \in S PROVE Thinned(s, S)[Rank(S, i)] = s[i]
  <2>1. Thinned(s, S)[Rank(S, i)] = s[CHOOSE j \in S : Rank(S, j) = Rank(S, i)]
    BY <1>1 DEF Thinned
  <2> QED BY <1>0, <2>1, ChosenByRank
<1> QED BY <1>4, <1>5

(* A new event is not seen by a handler that does not act on it, and the   *)
(* last that one that does has seen.                                       *)
LEMMA ThinnedGrows ==
  ASSUME NEW s \in Seq(Event), NEW S \in SUBSET (1..Len(s)), NEW e \in Event
  PROVE  /\ Thinned(Append(s, e), S) = Thinned(s, S)
         /\ \A i \in S : Rank(S \union {Len(s) + 1}, i) = Rank(S, i)
         /\ Thinned(Append(s, e), S \union {Len(s) + 1}) = Append(Thinned(s, S), e)
<1> DEFINE m == Len(s)
           t == Append(s, e)
           T == S \union {m + 1}
           c == Cardinality(S)
<1>1. /\ m \in Nat /\ t \in Seq(Event) /\ Len(t) = m + 1 /\ t[m + 1] = e
      /\ \A i \in S : i \in Nat /\ i # m + 1 /\ i <= m /\ t[i] = s[i]
  <2>1. \A i \in S : i \in 1..m
    OBVIOUS
  <2> QED BY <2>1
<1>2. /\ S \in SUBSET (1..Len(t)) /\ T \in SUBSET (1..Len(t)) /\ Len(t) \in Nat
      /\ S \subseteq T /\ m + 1 \in T /\ \A i \in T : i \in S \/ i = m + 1
  <2>1. \A i \in S : i \in 1..(m + 1)
    BY <1>1
  <2>2. m + 1 \in 1..(m + 1) /\ Len(t) = m + 1
    BY <1>1
  <2>3. \A i \in T : i \in 1..(m + 1)
    BY <2>1, <2>2
  <2>4. m + 1 \in Nat
    BY <1>1
  <2> HIDE DEF m
  <2>5. \A i \in S : i \in 1..Len(t)
    BY <2>1, <2>2
  <2>6. \A i \in T : i \in 1..Len(t)
    BY <2>2, <2>3
  <2>7. S \subseteq T /\ m + 1 \in T /\ \A i \in T : i \in S \/ i = m + 1
    OBVIOUS
  <2> HIDE DEF t, T
  <2> QED BY <2>2, <2>4, <2>5, <2>6, <2>7
<1>a. \A n \in 1..c : \E i \in S : Rank(S, i) = n
  BY <1>1, RankOnto, Zenon
<1>3. c \in Nat /\ IsFiniteSet(S) /\ \A i \in S : Rank(S, i) \in 1..c
  BY <1>1, RankCounts
<1>4. ASSUME NEW i \in S PROVE Rank(T, i) = Rank(S, i)
  <2>1. {k \in T : k <= i} = {k \in S : k <= i}
    BY <1>1
  <2> QED BY <2>1 DEF Rank
<1>5. Cardinality(T) = c + 1 /\ Rank(T, m + 1) = c + 1
  <2>1. Cardinality(T) = c + 1
    BY <1>1, <1>3, FS_AddElement
  <2>2. {k \in T : k <= m + 1} = T
    <3>1. \A k \in T : k <= m + 1
      BY <1>1
    <3> HIDE DEF T
    <3> QED BY <3>1
  <2> QED BY <2>1, <2>2 DEF Rank
<1> HIDE DEF t, T
<1>6. /\ Thinned(t, S) \in Seq(Event) /\ Len(Thinned(t, S)) = c
      /\ Thinned(s, S) \in Seq(Event) /\ Len(Thinned(s, S)) = c
      /\ Thinned(t, T) \in Seq(Event) /\ Len(Thinned(t, T)) = c + 1
  BY <1>1, <1>2, <1>5, ThinnedTyped
<1>7. ASSUME NEW n \in 1..c
      PROVE  Thinned(t, S)[n] = Thinned(s, S)[n] /\ Thinned(t, T)[n] = Thinned(s, S)[n]
  <2>1. PICK i \in S : Rank(S, i) = n
    BY <1>a
  <2>2. Thinned(t, S)[n] = t[i] /\ Thinned(s, S)[n] = s[i]
    BY <1>1, <1>2, <2>1, ThinnedTyped
  <2>3. i \in T /\ Rank(T, i) = n
    BY <1>2, <1>4, <2>1
  <2>4. Thinned(t, T)[n] = t[i]
    BY <1>1, <1>2, <2>3, ThinnedTyped
  <2> QED BY <1>1, <2>2, <2>4
<1>8. Thinned(t, T)[c + 1] = e
  <2>1. Thinned(t, T)[Rank(T, m + 1)] = t[m + 1]
    BY <1>1, <1>2, ThinnedTyped
  <2> QED BY <1>1, <1>5, <2>1
<1> HIDE DEF c
<1>9. Thinned(t, S) = Thinned(s, S)
  BY <1>6, <1>7, SeqsAgree
<1>10. Thinned(t, T) = Append(Thinned(s, S), e)
  <2> DEFINE a == Append(Thinned(s, S), e)
  <2>1. a \in Seq(Event) /\ Len(a) = c + 1 /\ a[c + 1] = e
        /\ \A n \in 1..c : a[n] = Thinned(s, S)[n]
    BY <1>3, <1>6
  <2> HIDE DEF a
  <2>2. \A n \in 1..(c + 1) : Thinned(t, T)[n] = a[n]
    <3>1. \A n \in 1..(c + 1) : n \in 1..c \/ n = c + 1
      BY <1>3
    <3> QED BY <1>7, <1>8, <2>1, <3>1
  <2> QED BY <1>6, <2>1, <2>2, SeqsAgree DEF a
<1> QED BY <1>4, <1>9, <1>10 DEF t, T

(* What was kept, tried and lost, in the numbers a handler would count.    *)
LEMMA KeptTyped ==
  ASSUME NEW K, stream \in Seq(Event)
  PROVE  /\ Len(stream) \in Nat /\ Kept(K) \in SUBSET (1..Len(stream))
         /\ Len(Thinned(stream, Kept(K))) = Cardinality(Kept(K))
         /\ \A i \in Kept(K) : i \in Nat /\ Rank(Kept(K), i) \in 1..Cardinality(Kept(K))
<1>1. Len(stream) \in Nat /\ Kept(K) \in SUBSET (1..Len(stream))
      /\ \A i \in Kept(K) : i \in Nat
  BY DEF Kept, Id
<1> QED BY <1>1, RankCounts, ThinnedTyped

(* An event that is announced.                                             *)
LEMMA PublishSeen ==
  ASSUME DeliveryInv, NEW K \in SUBSET Event, NEW e \in Event, Contract!Publish(e)
  PROVE  [Selected(K)!Next]_(Selected(K)!vars)
<1> DEFINE S == Kept(K)
           lost == Stranded \ tried
<1>1. /\ stream \in Seq(Event) /\ stream' = Append(stream, e)
      /\ tried' = tried /\ lost' = lost /\ tried \subseteq 1..Len(stream) /\ lost \subseteq 1..Len(stream)
      /\ Len(stream) \in Nat
  BY DEF DeliveryInv, DeliveryTypeOK, Contract!Publish, Stranded
<1>2. S \in SUBSET (1..Len(stream)) /\ \A i \in 1..Len(stream) : i # Len(stream) + 1
  BY <1>1, KeptTyped
<1>3. S' = IF e \in K THEN S \union {Len(stream) + 1} ELSE S
  BY <1>1 DEF Kept, Id
<1>4. /\ Thinned(Append(stream, e), S) = Thinned(stream, S)
      /\ \A i \in S : Rank(S \union {Len(stream) + 1}, i) = Rank(S, i)
      /\ Thinned(Append(stream, e), S \union {Len(stream) + 1}) = Append(Thinned(stream, S), e)
  BY <1>1, <1>2, ThinnedGrows
<1>5. \A ids \in SUBSET (1..Len(stream)) :
        {Rank(S', i) : i \in ids \cap S'} = {Rank(S, i) : i \in ids \cap S}
  BY <1>2, <1>3, <1>4
<1>6. Ranks(K, tried)' = Ranks(K, tried) /\ Ranks(K, lost)' = Ranks(K, lost)
  BY <1>1, <1>5 DEF Ranks
<1>7. CASE e \in K
  <2>1. Thinned(stream, S)' = Append(Thinned(stream, S), e)
    BY <1>1, <1>3, <1>4, <1>7
  <2> QED BY <1>6, <1>7, <2>1 DEF Selected!Next, Selected!Publish
<1>8. CASE e \notin K
  <2>1. Thinned(stream, S)' = Thinned(stream, S)
    BY <1>1, <1>3, <1>4, <1>8
  <2> QED BY <1>6, <2>1 DEF Selected!vars
<1> QED BY <1>7, <1>8

(* An event that the handler gets, or that goes to another one.            *)
LEMMA HandleSeen ==
  ASSUME DeliveryInv, NEW K \in SUBSET Event, NEW i \in 1..Len(stream), Contract!Handle(i)
  PROVE  [Selected(K)!Next]_(Selected(K)!vars)
<1> DEFINE S == Kept(K)
           lost == Stranded \ tried
           settled == tried \union lost
<1>1. /\ stream \in Seq(Event) /\ stream' = stream /\ lost' = lost /\ tried' = tried \union {i}
      /\ i \notin settled /\ \A j \in 1..(i - 1) : j \in settled
  BY DEF DeliveryInv, DeliveryTypeOK, Contract!Handle, Contract!Settled
<1>2. S' = S /\ Thinned(stream, S)' = Thinned(stream, S) /\ Ranks(K, lost)' = Ranks(K, lost)
  BY <1>1 DEF Ranks, Kept, Id
<1>3. CASE i \notin S
  <2>1. (tried \union {i}) \cap S = tried \cap S
    BY <1>3
  <2>2. Ranks(K, tried)' = Ranks(K, tried)
    BY <1>1, <1>2, <2>1 DEF Ranks
  <2> QED BY <1>2, <2>2 DEF Selected!vars
<1>4. CASE i \in S
  <2> DEFINE r == Rank(S, i)
  <2>1. /\ Len(stream) \in Nat /\ S \in SUBSET (1..Len(stream))
        /\ Len(Thinned(stream, S)) = Cardinality(S) /\ Cardinality(S) \in Nat
        /\ \A j \in S : j \in Nat /\ Rank(S, j) \in 1..Cardinality(S)
    BY <1>1, KeptTyped, RankCounts
  <2>2. /\ \A j, k \in S : Rank(S, j) = Rank(S, k) => j = k
        /\ \A n \in 1..Cardinality(S) : \E j \in S : Rank(S, j) = n
    BY <2>1, RankOnto
  <2>3. \A j \in S : Rank(S, j) < r => j < i
    <3>1. \A j, k \in Nat : j <= k => Rank(S, j) <= Rank(S, k)
      BY <2>1, RankCounts
    <3> QED BY <1>4, <2>1, <3>1
  <2>4. r \notin Selected(K)!Settled
    BY <1>1, <1>4, <2>2 DEF Selected!Settled, Ranks
  <2>5. ASSUME NEW n \in 1..(r - 1) PROVE n \in Selected(K)!Settled
    <3>1. r \in Nat /\ r <= Cardinality(S) /\ n < r /\ n \in 1..Cardinality(S)
      BY <1>4, <2>1
    <3>2. PICK j \in S : Rank(S, j) = n
      BY <2>2, <3>1
    <3>3. j < i /\ j \in 1..Len(stream)
      BY <2>1, <2>3, <3>1, <3>2
    <3>4. j \in settled
      BY <1>1, <3>3
    <3> QED BY <3>2, <3>4 DEF Selected!Settled, Ranks
  <2>6. Ranks(K, tried)' = Ranks(K, tried) \union {r}
    <3>1. (tried \union {i}) \cap S = (tried \cap S) \union {i}
      BY <1>4
    <3> QED BY <1>1, <1>2, <3>1 DEF Ranks
  <2>7. Selected(K)!Handle(r)
    BY <1>2, <2>4, <2>5, <2>6 DEF Selected!Handle
  <2>8. r \in 1..Len(Thinned(stream, S))
    BY <1>4, <2>1
  <2> QED BY <2>7, <2>8 DEF Selected!Next
<1> QED BY <1>3, <1>4

(* A failure, which may have cost the handler nothing.                     *)
LEMMA LoseSeen ==
  ASSUME DeliveryInv, NEW K \in SUBSET Event, NEW n \in 1..Len(stream), Contract!Lose(n)
  PROVE  [Selected(K)!Next]_(Selected(K)!vars)
<1> DEFINE S == Kept(K)
           lost == Stranded \ tried
           settled == tried \union lost
           r == Rank(S, n)
<1>1. /\ stream \in Seq(Event) /\ stream' = stream /\ tried' = tried
      /\ lost' = lost \union ((1..n) \ settled) /\ \A j \in settled : j <= n
  BY DEF DeliveryInv, DeliveryTypeOK, Contract!Lose, Contract!Settled
<1>2. S' = S /\ Thinned(stream, S)' = Thinned(stream, S) /\ Ranks(K, tried)' = Ranks(K, tried)
  BY <1>1 DEF Ranks, Kept, Id
<1>3. /\ Len(stream) \in Nat /\ S \in SUBSET (1..Len(stream)) /\ n \in Nat
      /\ Len(Thinned(stream, S)) = Cardinality(S) /\ Cardinality(S) \in Nat
      /\ \A j \in S : j \in Nat /\ j >= 1 /\ Rank(S, j) \in 1..Cardinality(S)
  <2>1. S \in SUBSET (1..Len(stream)) /\ Len(stream) \in Nat
        /\ Len(Thinned(stream, S)) = Cardinality(S)
        /\ \A j \in S : j \in Nat /\ Rank(S, j) \in 1..Cardinality(S)
    BY <1>1, KeptTyped
  <2>2. \A j \in S : j >= 1
    BY <2>1
  <2>3. Cardinality(S) \in Nat
    BY <2>1, RankCounts
  <2> QED BY <2>1, <2>2, <2>3
<1>4. /\ \A j, k \in S : Rank(S, j) = Rank(S, k) => j = k
      /\ \A m \in 1..Cardinality(S) : \E j \in S : Rank(S, j) = m
  BY <1>3, RankOnto
<1>5. r \in 0..Cardinality(S) /\ \A j \in S : j <= n <=> Rank(S, j) <= r
  <2>1. /\ \A j, k \in Nat : j <= k => Rank(S, j) <= Rank(S, k)
        /\ \A j \in Nat, k \in S : j < k => Rank(S, j) < Rank(S, k)
        /\ r \in 0..Cardinality(S)
    BY <1>3, RankCounts
  <2> QED BY <1>3, <2>1
<1>6. Ranks(K, lost)' = Ranks(K, lost) \union {Rank(S, j) : j \in ((1..n) \ settled) \cap S}
  BY <1>1, <1>2 DEF Ranks
<1>7. {Rank(S, j) : j \in ((1..n) \ settled) \cap S} = (1..r) \ Selected(K)!Settled
  <2>1. ASSUME NEW j \in S, j <= n, j \notin settled
        PROVE  Rank(S, j) \in 1..r /\ Rank(S, j) \notin Selected(K)!Settled
    <3>1. Rank(S, j) \in 1..r
      BY <1>3, <1>5, <2>1
    <3>2. Rank(S, j) \notin Selected(K)!Settled
      BY <1>4, <2>1 DEF Selected!Settled, Ranks
    <3> QED BY <3>1, <3>2
  <2>2. ASSUME NEW m \in 1..r, m \notin Selected(K)!Settled
        PROVE  \E j \in ((1..n) \ settled) \cap S : Rank(S, j) = m
    <3>1. m \in 1..Cardinality(S) /\ m <= r
      BY <1>3, <1>5
    <3>2. PICK j \in S : Rank(S, j) = m
      BY <1>4, <3>1
    <3>3. j \notin settled
      BY <2>2, <3>2 DEF Selected!Settled, Ranks
    <3>4. j \in 1..n
      BY <1>3, <1>5, <3>1, <3>2
    <3> QED BY <3>2, <3>3, <3>4
  <2> HIDE DEF r, settled, S
  <2> QED BY <2>1, <2>2
<1>8. CASE r = 0
  <2>1. 1..r = {}
    BY <1>8
  <2> QED BY <1>2, <1>6, <1>7, <2>1 DEF Selected!vars
<1>9. CASE r # 0
  <2>1. r \in 1..Len(Thinned(stream, S))
    BY <1>3, <1>5, <1>9
  <2>2. \A m \in Selected(K)!Settled : m <= r
    BY <1>1, <1>5 DEF Selected!Settled, Ranks
  <2>3. Selected(K)!Lose(r)
    BY <1>2, <1>6, <1>7, <2>2 DEF Selected!Lose
  <2> QED BY <2>1, <2>3 DEF Selected!Next
<1> QED BY <1>8, <1>9

(* Every step of the contract is one of each handler's.                    *)
LEMMA ContractIsSeen ==
  ASSUME DeliveryInv, [Contract!Next]_(Contract!vars)
  PROVE  \A K \in SUBSET Event : [Selected(K)!Next]_(Selected(K)!vars)
<1> SUFFICES ASSUME NEW K \in SUBSET Event PROVE [Selected(K)!Next]_(Selected(K)!vars)
  OBVIOUS
<1>1. CASE UNCHANGED Contract!vars
  BY <1>1 DEF Contract!vars, Selected!vars, Ranks, Kept, Id
<1> QED BY <1>1, PublishSeen, HandleSeen, LoseSeen DEF Contract!Next

(* Before anything was announced.                                          *)
LEMMA NothingSeenYet == DeliveryInit => \A K \in SUBSET Event : Selected(K)!Init
<1> SUFFICES ASSUME DeliveryInit, NEW K \in SUBSET Event PROVE Selected(K)!Init
  OBVIOUS
<1>1. Kept(K) = {} /\ Cardinality({}) = 0
  BY FS_EmptySet DEF DeliveryInit, Kept, Id
<1>2. Thinned(stream, Kept(K)) = <<>>
  BY <1>1 DEF Thinned
<1> QED BY <1>1, <1>2 DEF Selected!Init, Ranks

(* A handler that acts on some kinds of events only can rely on the        *)
(* contract for those alone, whichever they are.                           *)
THEOREM EachHandlerIsServed == DeliverySpec => EachHandlerKeepsContract
<1>1. DeliveryInv /\ [DeliveryNext]_deliveryVars =>
        [\A K \in SUBSET Event : [Selected(K)!Next]_(Selected(K)!vars)]_deliveryVars
  BY NextRefines, ContractIsSeen
<1> QED
  BY <1>1, NothingSeenYet, DeliveryInvariant, PTL DEF DeliverySpec, EachHandlerKeepsContract

(***************************************************************************)
(* What a failure costs.                                                   *)
(***************************************************************************)

InMemory == (todo \union {hand}) \ {0}

(* StrandedBounded is not inductive alone: the bound on what a stop        *)
(* strands comes from the size of the batch it interrupts.                 *)
LossInv ==
  /\ StrandedBounded
  /\ Cardinality(InMemory) <= Batch

(* The sets that are counted are finite.                                   *)
LEMMA CountedAreFinite ==
  ASSUME DeliveryTypeOK
  PROVE  /\ IsFiniteSet(Stranded) /\ Cardinality(Stranded) \in Nat
         /\ IsFiniteSet(InMemory) /\ Cardinality(InMemory) \in Nat
<1>1. delivered \in Nat
  BY DEF DeliveryTypeOK
<1>2. IsFiniteSet(1..delivered)
  BY <1>1, FS_Interval
<1>3. Stranded \in SUBSET (1..delivered) /\ InMemory \in SUBSET (1..delivered)
  BY DEF Stranded, InMemory, DeliveryTypeOK
<1> QED
  BY <1>2, <1>3, FS_Subset, FS_CardinalityType

(* A batch is no longer than what one XREADGROUP returns.                  *)
LEMMA BatchSize ==
  ASSUME NEW a \in Nat, NEW b \in Nat, a <= b, b - a <= Batch
  PROVE  IsFiniteSet((a + 1)..b) /\ Cardinality((a + 1)..b) \in 0..Batch
<1>1. a + 1 \in Int /\ b \in Int
  OBVIOUS
<1>2. /\ IsFiniteSet((a + 1)..b)
      /\ Cardinality((a + 1)..b) = IF a + 1 > b THEN 0 ELSE b - (a + 1) + 1
  BY <1>1, FS_Interval
<1> QED
  BY <1>2, DeliveryAssumption

(* The losses of one failure add to those of the earlier ones.             *)
LEMMA OneMoreFault ==
  ASSUME DeliveryTypeOK, StrandedBounded, Fault, DeliveryTypeOK',
         NEW T, IsFiniteSet(T), Cardinality(T) \in 0..Batch,
         Stranded' \subseteq Stranded \union T
  PROVE  StrandedBounded'
<1>1. /\ IsFiniteSet(Stranded \union T)
      /\ Cardinality(Stranded \union T)
           = Cardinality(Stranded) + Cardinality(T) - Cardinality(Stranded \cap T)
  BY CountedAreFinite, FS_Union
<1>2. Cardinality(Stranded \cap T) \in Nat
  BY CountedAreFinite, FS_Subset, FS_CardinalityType
<1>3. Cardinality(Stranded') <= Cardinality(Stranded \union T)
  BY <1>1, FS_Subset
<1>4. Cardinality(Stranded) \in Nat /\ Cardinality(Stranded)' \in Nat
  BY CountedAreFinite, <1>1, FS_Subset, FS_CardinalityType
<1>5. Cardinality(Stranded)' <= Cardinality(Stranded) + Batch
  BY <1>1, <1>2, <1>3, <1>4, DeliveryAssumption
<1>6. faults \in Nat /\ faults' = faults + 1
  BY DeliveryAssumption DEF Fault, DeliveryTypeOK
<1>7. Batch * faults' = Batch * faults + Batch /\ Batch * faults \in Nat
  BY <1>6, DeliveryAssumption
<1> QED
  BY <1>4, <1>5, <1>7, DeliveryAssumption DEF StrandedBounded

(* No step strands more than the batch it interrupts.                      *)
LEMMA LossNext ==
  ASSUME DeliveryInv, DeliveryInv', LossInv, [DeliveryNext]_deliveryVars
  PROVE  LossInv'
<1> USE DEF DeliveryInv
<1>1. ASSUME NEW last \in 1..MaxStream, Read(last)
      PROVE  LossInv'
  <2>1. hand = 0 /\ todo = {}
    BY <1>1 DEF Read, HandOut, BatchIsTheUntriedSuffix
  <2>2. Stranded' = Stranded
    BY <1>1, <2>1, DeliveryAssumption DEF Read, HandOut, Stranded, DeliveryTypeOK
  <2>3. InMemory' = (delivered + 1)..last
    BY <1>1, <2>1, DeliveryAssumption DEF Read, InMemory, DeliveryTypeOK
  <2>4. Cardinality((delivered + 1)..last) <= Batch
    BY <1>1, BatchSize, DeliveryAssumption DEF Read, HandOut, DeliveryTypeOK
  <2>5. UNCHANGED faults
    BY <1>1 DEF Read
  <2> QED
    BY <2>2, <2>3, <2>4, <2>5 DEF LossInv, StrandedBounded
<1>2. ASSUME NEW i \in todo, Take(i)
      PROVE  LossInv'
  <2>1. hand = 0 /\ i # 0
    BY <1>2 DEF Take, BatchIsTheUntriedSuffix, DeliveryTypeOK
  <2>2. UNCHANGED <<Stranded, InMemory, faults>>
    BY <1>2, <2>1 DEF Take, Stranded, InMemory, DeliveryTypeOK
  <2> QED
    BY <2>2 DEF LossInv, StrandedBounded
<1>3. CASE Ack
  <2>1. Stranded' = Stranded /\ InMemory' \in SUBSET InMemory
    BY <1>3 DEF Ack, Stranded, InMemory, DeliveryTypeOK
  <2>2. Cardinality(InMemory') <= Cardinality(InMemory)
    BY <2>1, CountedAreFinite, FS_Subset
  <2>3. Cardinality(InMemory)' \in Nat /\ Cardinality(InMemory) \in Nat
    BY <2>1, CountedAreFinite, FS_Subset, FS_CardinalityType
  <2>4. UNCHANGED faults
    BY <1>3 DEF Ack
  <2> QED
    BY <2>1, <2>2, <2>3, <2>4, DeliveryAssumption DEF LossInv, StrandedBounded
<1>4. ASSUME NEW last \in 1..MaxStream, ReadReplyLost(last)
      PROVE  LossInv'
  <2>1. hand = 0 /\ todo = {}
    BY <1>4 DEF ReadReplyLost, HandOut, BatchIsTheUntriedSuffix
  <2>2. Stranded' \subseteq Stranded \union ((delivered + 1)..last)
    BY <1>4, <2>1 DEF ReadReplyLost, HandOut, Stranded
  <2>3. /\ IsFiniteSet((delivered + 1)..last)
        /\ Cardinality((delivered + 1)..last) \in 0..Batch
    BY <1>4, BatchSize, DeliveryAssumption DEF ReadReplyLost, HandOut, DeliveryTypeOK
  <2>4. StrandedBounded'
    BY <1>4, <2>2, <2>3, OneMoreFault DEF ReadReplyLost, LossInv
  <2>5. InMemory' = {}
    BY <1>4, <2>1 DEF ReadReplyLost, InMemory
  <2> QED
    BY <2>4, <2>5, FS_EmptySet, DeliveryAssumption DEF LossInv
<1>5. CASE RedisError \/ Stop
  <2>1. Fault /\ todo' = {} /\ hand' = 0 /\ UNCHANGED pel
    BY <1>5 DEF RedisError, Stop
  <2>2. Stranded' \subseteq Stranded \union InMemory
    BY <2>1 DEF Stranded, InMemory, DeliveryTypeOK
  <2>3. StrandedBounded'
    BY <2>1, <2>2, OneMoreFault, CountedAreFinite, DeliveryAssumption DEF LossInv
  <2>4. InMemory' = {}
    BY <2>1 DEF InMemory
  <2> QED
    BY <2>3, <2>4, FS_EmptySet, DeliveryAssumption DEF LossInv
<1>6. CASE UNCHANGED <<pel, todo, hand, faults>>
  BY <1>6 DEF LossInv, StrandedBounded, Stranded, InMemory
<1>7. CASE (\E e \in Event : Announce(e)) \/ Start \/ Settle \/ UNCHANGED deliveryVars
  BY <1>6, <1>7 DEF Announce, Start, Settle, deliveryVars
<1> QED
  BY <1>1, <1>2, <1>3, <1>4, <1>5, <1>7 DEF DeliveryNext, ThreadStep, FaultStep

(* A process death, lost reply or Redis error costs at most one batch.     *)
THEOREM LossIsBounded == DeliverySpec => []StrandedBounded
<1>1. DeliveryInit => LossInv
  <2> SUFFICES ASSUME DeliveryInit PROVE LossInv
    OBVIOUS
  <2>1. Stranded = {} /\ InMemory = {} /\ faults = 0
    BY DEF DeliveryInit, Stranded, InMemory
  <2> QED
    BY <2>1, FS_EmptySet, DeliveryAssumption DEF LossInv, StrandedBounded
<1>2. DeliveryInv /\ DeliveryInv' /\ LossInv /\ [DeliveryNext]_deliveryVars => LossInv'
  BY LossNext
<1>3. LossInv => StrandedBounded
  BY DEF LossInv
<1> QED
  BY <1>1, <1>2, <1>3, DeliveryInvariant, PTL DEF DeliverySpec
=============================================================================
