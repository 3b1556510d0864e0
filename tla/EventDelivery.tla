--------------------------- MODULE EventDelivery ---------------------------
(***************************************************************************)
(* How a domain event travels from the CMS to the engine worker: the Redis *)
(* stream now:domain-events:stream, the consumer group                     *)
(* now-embeddings-worker and the one supervised thread that reads it       *)
(* (packages/cms/src/lib/redis.ts, packages/embeddings worker.py,          *)
(* apps/worker/app/main.py).  What a handler does with an event is left to *)
(* the modules that extend this one; here a handler succeeds or fails.     *)
(*                                                                         *)
(* Stream entries are numbered 1, 2, ... in XADD order, which is the order *)
(* of their Redis ids.                                                     *)
(***************************************************************************)
EXTENDS Naturals, Sequences, FiniteSets

CONSTANTS Event,      \* what an entry of the stream says
          Batch,      \* entries one XREADGROUP returns at most (count=50)
          MaxStream,  \* bound: entries ever added to the stream
          MaxFaults   \* bound: process deaths, lost replies and Redis errors

ASSUME DeliveryAssumption ==
  /\ Batch \in Nat \ {0}
  /\ MaxStream \in Nat
  /\ MaxFaults \in Nat

VARIABLES
  stream,     \* entries of the stream, oldest first
  delivered,  \* last id the consumer group has handed out
  pel,        \* the group's pending list: handed out, not acknowledged
  thread,     \* where the consumer thread is
  todo,       \* ids of the batch in memory that are not yet taken
  hand,       \* id being handled, 0 when there is none
  tried,      \* history: ids whose handler was started
  faults      \* process deaths, lost replies and Redis errors so far

deliveryVars == <<stream, delivered, pel, thread, todo, hand, tried, faults>>

Id == 1..Len(stream)
ThreadState == {"stopped", "polling", "handling", "acking", "dead"}

(* Ids the group still holds as pending but no running thread has in       *)
(* memory: only XCLAIM could bring them back, and nothing calls it.        *)
Stranded == pel \ (todo \union {hand})

DeliveryTypeOK ==
  /\ stream \in Seq(Event)
  /\ delivered \in 0..Len(stream)
  /\ pel \in SUBSET (1..delivered)
  /\ thread \in ThreadState
  /\ todo \in SUBSET (1..delivered)
  /\ hand \in 0..delivered
  /\ tried \in SUBSET (1..delivered)
  /\ faults \in 0..MaxFaults

DeliveryInit ==
  /\ stream = <<>>
  /\ delivered = 0
  /\ pel = {}
  /\ thread = "stopped"
  /\ todo = {}
  /\ hand = 0
  /\ tried = {}
  /\ faults = 0

(***************************************************************************)
(* The CMS side.  XADD reached the server; a publish that failed adds      *)
(* nothing, and a command ioredis sends again after losing its reply adds  *)
(* a second entry.                                                         *)
(***************************************************************************)
Announce(e) ==
  /\ Len(stream) < MaxStream
  /\ stream' = Append(stream, e)
  /\ UNCHANGED <<delivered, pel, thread, todo, hand, tried, faults>>

(***************************************************************************)
(* The worker process.                                                     *)
(***************************************************************************)
Fault == faults < MaxFaults /\ faults' = faults + 1

(* The container starts the process; the thread creates the group, or      *)
(* finds it (BUSYGROUP), and enters run_forever.                           *)
(* The mutated form goes through the group's pending list (id "0") first.  *)
StartRereadsPending ==
  /\ thread = "stopped"
  /\ thread' = "polling"
  /\ todo' = pel
  /\ UNCHANGED <<stream, delivered, pel, hand, tried, faults>>

Start ==
  /\ thread = "stopped"
  /\ thread' = "polling"
  /\ UNCHANGED <<stream, delivered, pel, todo, hand, tried, faults>>

(* XREADGROUP ">" : the group hands out the entries after its cursor and   *)
(* writes them to the pending list.                                        *)
(* Mutated form: count is not passed.                                      *)
HandOutEverything(last) ==
  /\ thread = "polling" /\ todo = {}
  /\ last > delivered /\ last = Len(stream)
  /\ delivered' = last
  /\ pel' = pel \union ((delivered + 1)..last)

HandOut(last) ==
  /\ thread = "polling"
  /\ todo = {}
  /\ last \in (delivered + 1)..Len(stream)
  /\ last - delivered <= Batch
  /\ last - delivered = Batch \/ last = Len(stream)
  /\ delivered' = last
  /\ pel' = pel \union ((delivered + 1)..last)

(* Mutated form: the reader waits until a whole batch is there.            *)
ReadFullBatches(last) ==
  /\ last = delivered + Batch
  /\ HandOut(last)
  /\ todo' = (delivered + 1)..last
  /\ UNCHANGED <<stream, thread, hand, tried, faults>>

Read(last) ==
  /\ HandOut(last)
  /\ todo' = (delivered + 1)..last
  /\ UNCHANGED <<stream, thread, hand, tried, faults>>

(* The reply of an XREADGROUP the server executed never arrives: the       *)
(* exception leaves run_once and the thread dies.                          *)
ReadReplyLost(last) ==
  /\ Fault
  /\ HandOut(last)
  /\ thread' = "dead"
  /\ UNCHANGED <<stream, todo, hand, tried>>

(* The next message of the batch, in stream order, goes to handle_payload. *)
(* Mutated form: the newest message of the batch goes first.               *)
TakeNewest(i) ==
  /\ thread = "polling"
  /\ i \in todo
  /\ \A j \in todo : j <= i
  /\ todo' = todo \ {i}
  /\ hand' = i
  /\ tried' = tried \union {i}
  /\ thread' = "handling"
  /\ UNCHANGED <<stream, delivered, pel, faults>>

Take(i) ==
  /\ thread = "polling"
  /\ i \in todo
  /\ \A j \in todo : i <= j
  /\ todo' = todo \ {i}
  /\ hand' = i
  /\ tried' = tried \union {i}
  /\ thread' = "handling"
  /\ UNCHANGED <<stream, delivered, pel, faults>>

(* handle_payload returned or raised; the finally clause follows both ways.*)
Settle ==
  /\ thread = "handling"
  /\ thread' = "acking"
  /\ UNCHANGED <<stream, delivered, pel, todo, hand, tried, faults>>

(* Mutated forms: one XACK for the whole batch; a message put back to be   *)
(* tried again.                                                            *)
AckWholeBatch ==
  /\ thread = "acking"
  /\ pel' = pel \ (todo \union {hand})
  /\ hand' = 0
  /\ thread' = "polling"
  /\ UNCHANGED <<stream, delivered, todo, tried, faults>>

AckPutsBack ==
  /\ thread = "acking"
  /\ todo' = todo \union {hand}
  /\ hand' = 0
  /\ thread' = "polling"
  /\ UNCHANGED <<stream, delivered, pel, tried, faults>>

Ack ==
  /\ thread = "acking"
  /\ pel' = pel \ {hand}
  /\ hand' = 0
  /\ thread' = "polling"
  /\ UNCHANGED <<stream, delivered, todo, tried, faults>>

(* A Redis error inside the XACK, or inside an XREADGROUP the server never *)
(* executed, is not caught in the loop: the thread dies with its batch.    *)
RedisError ==
  /\ thread \in {"polling", "acking"}
  /\ thread = "polling" => todo = {}
  /\ Fault
  /\ thread' = "dead"
  /\ todo' = {}
  /\ hand' = 0
  /\ UNCHANGED <<stream, delivered, pel, tried>>

(* The process stops, at any point of the loop: killed, or shut down --    *)
(* shutdown() does not wait for the daemon thread.  The container that     *)
(* replaces a process whose thread has died stops it the same way.         *)
Stop ==
  /\ thread # "stopped"
  /\ Fault
  /\ thread' = "stopped"
  /\ todo' = {}
  /\ hand' = 0
  /\ UNCHANGED <<stream, delivered, pel, tried>>

ThreadStep ==
  \/ \E last \in 1..MaxStream : Read(last)
  \/ \E i \in todo : Take(i)
  \/ Settle
  \/ Ack

FaultStep ==
  \/ \E last \in 1..MaxStream : ReadReplyLost(last)
  \/ RedisError
  \/ Stop

DeliveryNext ==
  \/ \E e \in Event : Announce(e)
  \/ Start
  \/ ThreadStep
  \/ FaultStep

DeliverySpec == DeliveryInit /\ [][DeliveryNext]_deliveryVars

(* run_forever never stops polling, and the container restarts a process   *)
(* that exited (restart: unless-stopped).  Nothing restarts a process      *)
(* whose thread died: "dead" has no fair way out.                          *)
FairDeliverySpec ==
  /\ DeliverySpec
  /\ WF_deliveryVars(Start)
  /\ WF_deliveryVars(ThreadStep)

(***************************************************************************)
(* Properties.                                                             *)
(***************************************************************************)

(* What run_once relies on without saying so: the batch in memory is       *)
(* exactly what lies between the message in hand and the group's cursor,   *)
(* it is pending, and none of it has been handled before, whatever         *)
(* restarts came between.                                                  *)
BatchIsTheUntriedSuffix ==
  /\ todo \union {hand} \subseteq pel \union {0}
  /\ \A i \in todo : \A j \in tried : j < i
  /\ hand # 0 => hand \in tried /\ \A j \in tried : j <= hand
  /\ hand # 0 <=> thread \in {"handling", "acking"}
  /\ todo # {} => \E i \in todo : todo = i..delivered

(* XACK in the finally clause: an entry the group has handed out and no    *)
(* longer holds as pending was given to the handler.  Nothing is           *)
(* acknowledged unseen.                                                    *)
AckedWasTried == (1..delivered) \ pel \subseteq tried

(* Between the cursor, the pending list and the memory of the thread no    *)
(* entry is skipped by an acknowledgement and none is taken up again.      *)
NoneSkippedOrRepeated == BatchIsTheUntriedSuffix /\ AckedWasTried

(* What a stop costs: every stop, lost reply or Redis error strands at     *)
(* most one batch.                                                         *)
StrandedBounded == Cardinality(Stranded) <= Batch * faults

(* The pipeline as its consumers may rely on it: every entry is tried once *)
(* in stream order or lost for good, across any number of restarts.  An    *)
(* event handled twice or after a newer one would put an older state of an *)
(* article or an older editorial decision over a newer one.                *)
Contract == INSTANCE AtMostOnceLog WITH log <- stream, lost <- Stranded \ tried

KeepsContract == Contract!Spec

(* The pipeline as one handler may rely on it, which acts on some of the   *)
(* events (consumer.py, handle_payload) and numbers those alone: ids are   *)
(* seen as ranks among the ids of the events in K.                         *)
Kept(K) == {i \in Id : stream[i] \in K}
Rank(S, i) == Cardinality({k \in S : k <= i})
Ranks(K, ids) == {Rank(Kept(K), i) : i \in ids \cap Kept(K)}
Thinned(s, S) == [n \in 1..Cardinality(S) |-> s[CHOOSE i \in S : Rank(S, i) = n]]

Selected(K) == INSTANCE AtMostOnceLog
  WITH Event <- K, log <- Thinned(stream, Kept(K)),
       tried <- Ranks(K, tried), lost <- Ranks(K, Stranded \ tried)

(* Whatever a handler acts on, that part of the stream is again a log      *)
(* whose entries are tried once and in order, or lost for good: what other *)
(* handlers do with the entries between, and failures while they are at    *)
(* it, do not show.                                                        *)
EachHandlerKeepsContract ==
  /\ \A K \in SUBSET Event : Selected(K)!Init
  /\ [][\A K \in SUBSET Event : [Selected(K)!Next]_(Selected(K)!vars)]_deliveryVars

(* The group's cursor reaches every entry unless the thread has died.      *)
CursorCatchesUp ==
  \A i \in 1..MaxStream :
    (i <= Len(stream)) ~> (i <= delivered \/ thread = "dead")

(* Every entry handed out is settled: acknowledged, or stranded.  Nothing  *)
(* stays in the memory of a running thread for ever.                       *)
BatchDrains == []<>(todo = {} /\ hand = 0)
=============================================================================
