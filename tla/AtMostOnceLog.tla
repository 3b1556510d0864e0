--------------------------- MODULE AtMostOnceLog ---------------------------
(***************************************************************************)
(* What the event pipeline really promises about the domain events it has  *)
(* logged: each one is either given to the handler, once and after every   *)
(* older one has been settled, or it is lost, together with whatever the   *)
(* same failure cost, and then it never comes back.  This is at-most-once  *)
(* delivery in order, with losses that are contiguous.                     *)
(***************************************************************************)
EXTENDS Naturals, Sequences

CONSTANT Event

VARIABLES log,    \* the events, oldest first
          tried,  \* positions given to the handler
          lost    \* positions that will never be

vars == <<log, tried, lost>>

Settled == tried \union lost

Init ==
  /\ log = <<>>
  /\ tried = {}
  /\ lost = {}

Publish(e) ==
  /\ log' = Append(log, e)
  /\ UNCHANGED <<tried, lost>>

(* The oldest event that is not settled yet goes to the handler.           *)
Handle(i) ==
  /\ i \notin Settled
  /\ \A j \in 1..(i - 1) : j \in Settled
  /\ tried' = tried \union {i}
  /\ UNCHANGED <<log, lost>>

(* A failure loses the oldest events that are not settled, up to n.        *)
Lose(n) ==
  /\ \A j \in Settled : j <= n
  /\ lost' = lost \union ((1..n) \ Settled)
  /\ UNCHANGED <<log, tried>>

Next ==
  \/ \E e \in Event : Publish(e)
  \/ \E i \in 1..Len(log) : Handle(i) \/ Lose(i)

Spec == Init /\ [][Next]_vars
=============================================================================
