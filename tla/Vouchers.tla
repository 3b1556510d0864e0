------------------------------ MODULE Vouchers ------------------------------
(* One partner offer and the vouchers readers claim of it: the trigger that *)
(* counts a reader's claims inside the claiming transaction, behind a lock  *)
(* on the offer's row (platform migration 0012).  The statements of the     *)
(* transactions interleave; the application that will send them is not      *)
(* written yet, so any of them may come at any time.                        *)
EXTENDS Naturals, FiniteSets

CONSTANTS
    Claimer,   \* sessions that claim at a time
    Holder,    \* readers
    NoClaimer,
    Caps       \* values per_reader_cap may be given

ASSUME VoucherAssumption ==
    Caps \subseteq Nat \ {0} /\ NoClaimer \notin Claimer /\ Holder # {}

VARIABLES
    cap,      \* offers.per_reader_cap
    rowlock,  \* the transaction that holds the offer's row
    claims,   \* voucher_claims committed as 'claimed' or 'redeemed', by reader
    claimer   \* for each session, its transaction: step, reader, rows inserted

voucherVars == <<cap, rowlock, claims, claimer>>

NoClaim(r) == [step |-> "none", holder |-> r, rows |-> 0]
MaxCap == CHOOSE n \in Caps : \A m \in Caps : m <= n

VouchersInit ==
    /\ cap \in Caps
    /\ rowlock = NoClaimer
    /\ claims = [r \in Holder |-> 0]
    /\ claimer = [c \in Claimer |-> NoClaim(CHOOSE r \in Holder : TRUE)]

Steps(c, step) == claimer' = [claimer EXCEPT ![c].step = step]

\* Transactions end and give up their locks together with their rows.
ClaimEnds(c) ==
    /\ claimer' = [claimer EXCEPT ![c] = NoClaim(@.holder)]
    /\ rowlock' = IF rowlock = c THEN NoClaimer ELSE rowlock

InsertsClaim(c, r) ==
    /\ claimer[c].step = "none"
    /\ claimer' = [claimer EXCEPT ![c].step = "trigger", ![c].holder = r]
    /\ UNCHANGED <<cap, rowlock, claims>>

\* Another row for the same reader in the same transaction.
InsertsMore(c) ==
    /\ claimer[c].step = "inserted" /\ claimer[c].rows <= MaxCap
    /\ Steps(c, "trigger")
    /\ UNCHANGED <<cap, rowlock, claims>>

\* mutant: the cap is read without FOR UPDATE
ReadsCap(c) ==
    /\ claimer[c].step = "trigger"
    /\ Steps(c, "count")
    /\ UNCHANGED <<cap, rowlock, claims>>

LocksOffer(c) ==
    /\ claimer[c].step = "trigger"
    /\ rowlock \in {NoClaimer, c}
    /\ rowlock' = c
    /\ Steps(c, "count")
    /\ UNCHANGED <<cap, claims>>

\* READ COMMITTED: the count sees what was committed before it, and the
\* transaction's own rows.
CountsClaims(c) ==
    /\ claimer[c].step = "count"
    /\ IF claims[claimer[c].holder] + claimer[c].rows >= cap
       THEN ClaimEnds(c)
       ELSE claimer' = [claimer EXCEPT ![c].step = "inserted", ![c].rows = @ + 1] /\ UNCHANGED rowlock
    /\ UNCHANGED <<cap, claims>>

CommitsClaims(c) ==
    /\ claimer[c].step = "inserted"
    /\ claims' = [claims EXCEPT ![claimer[c].holder] = @ + claimer[c].rows]
    /\ ClaimEnds(c)
    /\ UNCHANGED cap

RollsBackClaims(c) ==
    /\ claimer[c].step # "none"
    /\ ClaimEnds(c)
    /\ UNCHANGED <<cap, claims>>

\* A claim expires or is revoked; being redeemed it still counts.
GivesUpClaim(r) ==
    /\ claims[r] > 0
    /\ claims' = [claims EXCEPT ![r] = @ - 1]
    /\ UNCHANGED <<cap, rowlock, claimer>>

\* An UPDATE of the offer waits for its row.
Recaps(n) ==
    /\ rowlock = NoClaimer
    /\ cap' = n
    /\ UNCHANGED <<rowlock, claims, claimer>>

VouchersNext ==
    \/ \E c \in Claimer :
         \/ \E r \in Holder : InsertsClaim(c, r)
         \/ InsertsMore(c) \/ LocksOffer(c) \/ CountsClaims(c)
         \/ CommitsClaims(c) \/ RollsBackClaims(c)
    \/ \E r \in Holder : GivesUpClaim(r)
    \/ \E n \in Caps : Recaps(n)

VouchersSpec == VouchersInit /\ [][VouchersNext]_voucherVars

-----------------------------------------------------------------------------
\* Two sessions that claim for one reader cannot both count zero: whenever a
\* reader's claims grow they stay within the cap of that moment, also for the
\* rows one transaction inserts together and for a cap changed in between.
CapHolds ==
    [][\A r \in Holder : claims'[r] > claims[r] => claims'[r] <= cap']_voucherVars
=============================================================================
