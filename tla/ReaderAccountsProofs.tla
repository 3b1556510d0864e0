------------------------ MODULE ReaderAccountsProofs ------------------------
(***************************************************************************)
(* A reader's account and the vouchers claimed with it, proved for every   *)
(* number of requests and sessions served at a time: how many links can be *)
(* live at once, how often one is redeemed and how many passwords are      *)
(* tried, however the requests' statements interleave and wherever they    *)
(* stop; and that the lock on the offer's row makes the count of the       *)
(* trigger good until the transaction ends.                                *)
(***************************************************************************)
EXTENDS ReaderAccounts, Vouchers, FiniteSetTheorems, TLAPS

(* The requests about to mark the link t, and those about to insert a link *)
(* of the kind k.                                                          *)
Consuming(t) == {r \in At("consume") : req[r].token = t}
Creating(k) == {r \in At("create") : req[r].kind = k}

(* Links are issued in order, and a request follows one that was issued.   *)
IssuedInOrder ==
  /\ \E n \in 0 .. MaxTokens : Issued = 1 .. n
  /\ \A r \in At("consume") : req[r].token \in Issued

(* A link that nobody has marked was redeemed by nobody.                   *)
LiveIsUnspent == \A t \in Token : token[t].state \in {"unissued", "live"} => spent[t] = 0

AccountInv ==
  /\ AccountTypeOK /\ IssuedInOrder /\ LiveIsUnspent /\ LinksBounded /\ SpentBounded

-----------------------------------------------------------------------------
(* Sets of requests and of links are finite, and counted.                  *)
LEMMA CountsAreNumbers ==
  /\ \A S \in SUBSET Request : IsFiniteSet(S) /\ Cardinality(S) \in Nat
                               /\ Cardinality(S) <= Cardinality(Request)
  /\ \A S \in SUBSET Token : IsFiniteSet(S) /\ Cardinality(S) \in Nat
<1>1. IsFiniteSet(Token)
  BY FS_Interval, ReaderAssumption DEF Token
<1> QED BY <1>1, FS_Subset, FS_CardinalityType, ReaderAssumption

(* Fewer of both is within the bound still.                                *)
LEMMA FewerIsBounded ==
  ASSUME NEW S, NEW T, IsFiniteSet(T), S \subseteq T
  PROVE  IsFiniteSet(S) /\ Cardinality(S) \in Nat /\ Cardinality(T) \in Nat
         /\ Cardinality(S) <= Cardinality(T)
  BY FS_Subset, FS_CardinalityType

(* A step that issues no link and redeems none, and puts nobody before the *)
(* statements that do, keeps the bounds.                                   *)
LEMMA FewerKeeps ==
  ASSUME AccountInv, AccountTypeOK', spent' = spent,
         \A t \in Token : token'[t] = token[t]
                          \/ (token'[t].state = "gone" /\ token[t].state # "unissued"),
         \A r \in At("consume")' : r \in At("consume") /\ req'[r].token = req[r].token,
         \A r \in At("create")' : r \in At("create") /\ req'[r].kind = req[r].kind
  PROVE  AccountInv'
<1>1. \A t \in Token : Consuming(t)' \subseteq Consuming(t) /\ Consuming(t) \subseteq Request
  BY DEF Consuming, At
<1>2. \A k \in Kind : /\ Creating(k)' \subseteq Creating(k) /\ Creating(k) \subseteq Request
                      /\ Live(k)' \subseteq Live(k) /\ Live(k) \subseteq Token
  BY DEF Creating, Live, At
<1>3. SpentBounded'
  <2> SUFFICES ASSUME NEW t \in Token
               PROVE  spent[t] + Cardinality(Consuming(t)') <= Cardinality(Request)
    BY DEF SpentBounded, Consuming
  <2>1. spent[t] + Cardinality(Consuming(t)) <= Cardinality(Request)
    BY DEF AccountInv, SpentBounded, Consuming
  <2>2. Cardinality(Consuming(t)') \in Nat /\ Cardinality(Consuming(t)) \in Nat
        /\ Cardinality(Consuming(t)') <= Cardinality(Consuming(t))
    BY <1>1, CountsAreNumbers, FewerIsBounded
  <2>3. spent[t] \in Nat /\ Cardinality(Request) \in Nat
    BY CountsAreNumbers DEF AccountInv, AccountTypeOK
  <2> QED BY <2>1, <2>2, <2>3
<1>4. LinksBounded'
  <2> SUFFICES ASSUME NEW k \in Kind
               PROVE  Cardinality(Live(k)') + Cardinality(Creating(k)') <= Cardinality(Request)
    BY DEF LinksBounded, Creating
  <2>1. Cardinality(Live(k)) + Cardinality(Creating(k)) <= Cardinality(Request)
    BY DEF AccountInv, LinksBounded, Creating
  <2>2. Cardinality(Creating(k)') \in Nat /\ Cardinality(Creating(k)) \in Nat
        /\ Cardinality(Creating(k)') <= Cardinality(Creating(k))
    BY <1>2, CountsAreNumbers, FewerIsBounded
  <2>3. Cardinality(Live(k)') \in Nat /\ Cardinality(Live(k)) \in Nat
        /\ Cardinality(Live(k)') <= Cardinality(Live(k))
    BY <1>2, CountsAreNumbers, FewerIsBounded
  <2>4. Cardinality(Request) \in Nat
    BY CountsAreNumbers
  <2> QED BY <2>1, <2>2, <2>3, <2>4
<1>5. Issued' = Issued
  BY DEF Issued
<1>6. IssuedInOrder'
  BY <1>5 DEF AccountInv, IssuedInOrder
<1>7. LiveIsUnspent'
  BY DEF AccountInv, LiveIsUnspent
<1> QED BY <1>3, <1>4, <1>6, <1>7 DEF AccountInv

(* So does the move of one request to another statement than those two.    *)
LEMMA MoveKeeps ==
  ASSUME AccountInv, AccountTypeOK', UNCHANGED <<token, spent>>, NEW r \in Request,
         \A q \in Request : q # r => req'[q] = req[q],
         req'[r].at \notin {"consume", "create"}
  PROVE  AccountInv'
<1>1. \A q \in At("consume")' : q \in At("consume") /\ req'[q].token = req[q].token
  BY DEF At
<1>2. \A q \in At("create")' : q \in At("create") /\ req'[q].kind = req[q].kind
  BY DEF At
<1> QED BY <1>1, <1>2, FewerKeeps

-----------------------------------------------------------------------------
(* Types are kept by every step.                                           *)
LEMMA NextTokenIsOne ==
  ASSUME AccountInv, Issued # Token
  PROVE  /\ Cardinality(Issued) + 1 \in Token
         /\ Issued = 1 .. Cardinality(Issued)
<1>1. PICK n \in 0 .. MaxTokens : Issued = 1 .. n
  BY DEF AccountInv, IssuedInOrder
<1>2. n \in Nat /\ MaxTokens \in Nat
  BY ReaderAssumption
<1>3. Cardinality(Issued) = n
  BY <1>1, <1>2, FS_Interval
<1>4. n # MaxTokens
  BY <1>1 DEF Token
<1> QED BY <1>1, <1>2, <1>3, <1>4 DEF Token

(* The locals of a request.                                                *)
RequestSteps == {"idle", "insert", "drop", "create", "consume", "mark",
          "reset", "clear", "purge", "pass", "fail"}
Locals == [at : RequestSteps, kind : Kind, token : 0 .. MaxTokens, seen : Nat, page : BOOLEAN]

(* Every way in which a request moves on keeps its locals in range.        *)
LEMMA LocalsAreKept ==
  ASSUME req \in [Request -> Locals], NEW r \in Request, NEW step \in RequestSteps
  PROVE  /\ Goes(r, step) => req' \in [Request -> Locals]
         /\ \A k \in Kind : [req EXCEPT ![r].at = step, ![r].kind = k] \in [Request -> Locals]
         /\ \A k \in Kind, t \in Token :
              [req EXCEPT ![r].at = step, ![r].kind = k, ![r].token = t] \in [Request -> Locals]
         /\ \A n \in Nat : [req EXCEPT ![r].at = step, ![r].seen = n] \in [Request -> Locals]
         /\ [req EXCEPT ![r].at = step, ![r].page = TRUE] \in [Request -> Locals]
         /\ [req EXCEPT ![r] = [Idle EXCEPT !.at = step]] \in [Request -> Locals]
<1>1. \A t \in Token : t \in 0 .. MaxTokens
  BY DEF Token
<1>2. 0 \in 0 .. MaxTokens
  BY ReaderAssumption
<1>3. [Idle EXCEPT !.at = step] \in Locals
  BY <1>2 DEF Idle, Locals, Kind
<1> QED BY <1>1, <1>3 DEF Goes, Locals

(* A request that ends leaves the locals of an idle one.                   *)
LEMMA IdleIsALocal ==
  ASSUME req \in [Request -> Locals], NEW r \in Request, Ends(r)
  PROVE  req' \in [Request -> Locals]
<1>1. Idle \in Locals
  BY ReaderAssumption DEF Idle, Locals, Kind, RequestSteps
<1> QED BY <1>1 DEF Ends

(* Type correctness step by step, one action of the requests at a time.    *)
LEMMA TypesAreKept ==
  ASSUME AccountInv, [AccountNext]_accountVars
  PROVE  AccountTypeOK'
<1> DEFINE Rows == [status : {"none", "active", "closed"}, verified : BOOLEAN,
                    attempts : Nat, locked : BOOLEAN]
           Links == [kind : Kind, state : {"unissued", "live", "used", "gone"}]
<1>0. /\ reader \in Rows /\ token \in [Token -> Links] /\ held \subseteq Token
      /\ req \in [Request -> Locals] /\ spent \in [Token -> Nat] /\ wrong \in Nat
  BY DEF AccountInv, AccountTypeOK, Locals, RequestSteps
<1>T. ASSUME reader' \in Rows, token' \in [Token -> Links], held' \subseteq Token,
             req' \in [Request -> Locals], spent' \in [Token -> Nat], wrong' \in Nat
      PROVE  AccountTypeOK'
  BY <1>T DEF AccountTypeOK, Locals, RequestSteps
<1>S. \A s \in {"idle", "insert", "drop", "create", "consume", "mark",
              "reset", "clear", "purge", "pass", "fail"} : s \in RequestSteps
  BY DEF RequestSteps
<1>R. /\ [reader EXCEPT !.locked = FALSE] \in Rows /\ [reader EXCEPT !.verified = TRUE] \in Rows
      /\ [reader EXCEPT !.status = "closed"] \in Rows /\ Cleared \in Rows
      /\ [NoReader EXCEPT !.status = "active"] \in Rows
      /\ \A b \in BOOLEAN : [reader EXCEPT !.attempts = @ + 1, !.locked = b] \in Rows
  <2>1. [reader EXCEPT !.locked = FALSE] \in Rows /\ [reader EXCEPT !.verified = TRUE] \in Rows
    BY <1>0
  <2>2a. [reader EXCEPT !.status = "closed"] \in Rows
    BY <1>0
  <2>2b. Cleared \in Rows
    BY <1>0 DEF Cleared
  <2>3. [NoReader EXCEPT !.status = "active"] \in Rows
    BY DEF NoReader
  <2>4. ASSUME NEW b \in BOOLEAN
        PROVE  [reader EXCEPT !.attempts = @ + 1, !.locked = b] \in Rows
    <3>1. ASSUME NEW n \in Nat PROVE [reader EXCEPT !.attempts = n, !.locked = b] \in Rows
      BY <1>0
    <3>2. reader.attempts + 1 \in Nat
      BY <1>0
    <3> HIDE DEF Rows
    <3> QED BY <3>1, <3>2
  <2> HIDE DEF Rows
  <2> QED BY <2>1, <2>2a, <2>2b, <2>3, <2>4
<1>L. /\ \A k \in Kind : Without(k) \in [Token -> Links]
      /\ \A t \in Token, k \in Kind :
           [token EXCEPT ![t] = [kind |-> k, state |-> "live"]] \in [Token -> Links]
      /\ \A t \in Token : [token EXCEPT ![t].state = "used"] \in [Token -> Links]
      /\ \A t \in Token : [spent EXCEPT ![t] = @ + 1] \in [Token -> Nat]
      /\ \A t \in Token : token[t].kind \in Kind
  BY <1>0 DEF Without
<1>K. \A r \in Request : req[r].kind \in Kind /\ req[r].seen \in Nat
  BY <1>0 DEF Locals
<1>A. reader.attempts \in Nat
  BY <1>0
<1> HIDE DEF Rows, Links
<1>1. ASSUME NEW r \in Request, Registers(r) PROVE AccountTypeOK'
  BY <1>0, <1>1, <1>S, <1>T, LocalsAreKept DEF Registers
<1>2. ASSUME NEW r \in Request, Inserts(r) PROVE AccountTypeOK'
  BY <1>0, <1>2, <1>R, <1>S, <1>T, LocalsAreKept DEF Inserts
<1>3. ASSUME NEW r \in Request, NEW k \in Kind, AsksForLink(r, k) PROVE AccountTypeOK'
  BY <1>0, <1>3, <1>S, <1>T, LocalsAreKept DEF AsksForLink
<1>4. ASSUME NEW r \in Request, DropsOldLinks(r) PROVE AccountTypeOK'
  BY <1>0, <1>4, <1>K, <1>L, <1>S, <1>T, LocalsAreKept DEF DropsOldLinks
<1>5. ASSUME NEW r \in Request, PurgesLinks(r) PROVE AccountTypeOK'
  <2>1. "reset_password" \in Kind
    BY DEF Kind
  <2> QED BY <1>0, <1>5, <1>L, <1>T, <2>1, IdleIsALocal DEF PurgesLinks
<1>6. ASSUME NEW r \in Request, CreatesLink(r) PROVE AccountTypeOK'
  <2> DEFINE n == Cardinality(Issued) + 1
  <2>1. n \in Token
    BY <1>6, NextTokenIsOne DEF CreatesLink
  <2>2. /\ token' = [token EXCEPT ![n] = [kind |-> req[r].kind, state |-> "live"]]
        /\ held' = held \cup {n} \/ held' = held
        /\ Ends(r) /\ UNCHANGED <<reader, spent, wrong>>
    BY <1>6 DEF CreatesLink
  <2> HIDE DEF n
  <2> QED BY <1>0, <1>K, <1>L, <1>T, <2>1, <2>2, IdleIsALocal
<1>7. ASSUME NEW r \in Request, NEW t \in Token, FollowsLink(r, t) PROVE AccountTypeOK'
  BY <1>0, <1>7, <1>L, <1>S, <1>T, LocalsAreKept DEF FollowsLink
<1>8. ASSUME NEW r \in Request, Consumes(r) PROVE AccountTypeOK'
  <2>1. req[r].token \in Token
    BY <1>8 DEF Consumes, AccountInv, IssuedInOrder, At, Issued
  <2> QED BY <1>0, <1>8, <1>L, <1>S, <1>T, <2>1, LocalsAreKept DEF Consumes
<1>9. ASSUME NEW r \in Request, RefusesPassword(r) \/ SetsPassword(r) PROVE AccountTypeOK'
  <2>1. req' = [req EXCEPT ![r].at = "drop", ![r].page = TRUE] \/ Goes(r, "clear")
    BY <1>9 DEF RefusesPassword, SetsPassword
  <2>2. req' \in [Request -> Locals]
    BY <1>0, <1>S, <2>1 DEF Locals, Goes
  <2>3. UNCHANGED <<reader, token, held, spent, wrong>>
    BY <1>9 DEF RefusesPassword, SetsPassword
  <2> QED BY <1>0, <1>T, <2>2, <2>3
<1>10. ASSUME NEW r \in Request, ClearsAfterReset(r) PROVE AccountTypeOK'
  BY <1>0, <1>10, <1>R, <1>S, <1>T, LocalsAreKept DEF ClearsAfterReset
<1>11. ASSUME NEW r \in Request, MarksVerified(r) PROVE AccountTypeOK'
  BY <1>0, <1>11, <1>R, <1>S, <1>T, LocalsAreKept, IdleIsALocal DEF MarksVerified
<1>12. ASSUME NEW r \in Request, Passes(r) PROVE AccountTypeOK'
  BY <1>0, <1>12, <1>R, <1>T, IdleIsALocal DEF Passes
<1>13. ASSUME NEW r \in Request, SignsIn(r) PROVE AccountTypeOK'
  <2>1. \/ Goes(r, "pass")
        \/ req' = [req EXCEPT ![r].at = "fail", ![r].seen = reader.attempts]
    BY <1>13 DEF SignsIn
  <2>2. req' \in [Request -> Locals]
    BY <1>0, <1>A, <1>S, <2>1 DEF Locals, Goes
  <2>3. UNCHANGED <<reader, token, held, spent, wrong>>
    BY <1>13 DEF SignsIn
  <2> QED BY <1>0, <1>T, <2>2, <2>3
<1>14. ASSUME NEW r \in Request, Fails(r) PROVE AccountTypeOK'
  <2>1. (req[r].seen + 1 >= MaxAttempts) \in BOOLEAN
    BY <1>K, ReaderAssumption
  <2>2. reader' \in Rows
    BY <1>14, <1>R, <2>1 DEF Fails
  <2> QED BY <1>0, <1>14, <1>T, <2>2, IdleIsALocal DEF Fails
<1>15. ASSUME NEW r \in Request, Dies(r) PROVE AccountTypeOK'
  BY <1>0, <1>15, <1>T, IdleIsALocal DEF Dies
<1>16. ASSUME NEW t \in Token, Outdates(t) PROVE AccountTypeOK'
  BY <1>0, <1>16, <1>T DEF Outdates
<1>17. CASE LockLapses \/ Closes
  <2>1. CASE LockLapses
    BY <1>0, <2>1, <1>R, <1>T DEF LockLapses
  <2>2. CASE Closes
    BY <1>0, <2>2, <1>R, <1>T DEF Closes
  <2> QED BY <1>17, <2>1, <2>2
<1>18. CASE UNCHANGED accountVars
  BY <1>0, <1>18, <1>T DEF accountVars
<1> QED
  BY <1>1, <1>2, <1>3, <1>4, <1>5, <1>6, <1>7, <1>8, <1>9, <1>10, <1>11, <1>12, <1>13, <1>14,
     <1>15, <1>16, <1>17, <1>18
  DEF AccountNext

-----------------------------------------------------------------------------
(* The four statements that touch the links.                               *)

(* The sweep before a new link: none of the kind is live any more, so the  *)
(* request may stand before its INSERT.                                    *)
LEMMA DropsOldLinksKeeps ==
  ASSUME AccountInv, AccountTypeOK', NEW r \in Request, DropsOldLinks(r)
  PROVE  AccountInv'
<1>1. /\ req[r].at = "drop" /\ token' = Without(req[r].kind) /\ Goes(r, "create")
      /\ spent' = spent
  BY DEF DropsOldLinks
<1>2. AccountTypeOK
  BY DEF AccountInv
<1>3. /\ req'[r].at = "create" /\ req'[r].kind = req[r].kind
      /\ \A q \in Request : q # r => req'[q] = req[q]
  BY <1>1, <1>2 DEF Goes, AccountTypeOK
<1>4. \A t \in Token : token'[t] = token[t]
                       \/ (token'[t].state = "gone" /\ token[t].state \in {"live", "used"})
  BY <1>1, <1>2 DEF Without, AccountTypeOK
<1>5. \A t \in Token : Consuming(t)' = Consuming(t)
  BY <1>1, <1>3 DEF Consuming, At
<1>6. SpentBounded'
  <2>1. \A t \in Token : spent[t] + Cardinality(Consuming(t)) <= Cardinality(Request)
    BY DEF AccountInv, SpentBounded, Consuming
  <2>2. \A t \in Token : spent'[t] + Cardinality(Consuming(t)') <= Cardinality(Request)
    BY <1>1, <1>5, <2>1
  <2> QED BY <2>2 DEF SpentBounded, Consuming
<1>7. LinksBounded'
  <2> SUFFICES ASSUME NEW k \in Kind
               PROVE  Cardinality(Live(k)') + Cardinality(Creating(k)') <= Cardinality(Request)
    BY DEF LinksBounded, Creating
  <2>1. Creating(k)' \in SUBSET Request /\ Live(k)' \in SUBSET Token /\ Live(k) \in SUBSET Token
        /\ Creating(k) \in SUBSET Request
    BY DEF Creating, Live, At
  <2>2. CASE k = req[r].kind
    <3>1. Live(k)' = {}
      BY <1>1, <1>2, <2>2 DEF Live, Without, AccountTypeOK
    <3>2. Cardinality(Creating(k)') <= Cardinality(Request) /\ Cardinality(Creating(k)') \in Nat
      BY <2>1, CountsAreNumbers
    <3>3. Cardinality(Live(k)') = 0
      BY <3>1, FS_EmptySet
    <3> QED BY <3>2, <3>3
  <2>3. CASE k # req[r].kind
    <3>1. Creating(k)' = Creating(k)
      BY <1>1, <1>3, <2>3 DEF Creating, At
    <3>2. Live(k)' = Live(k)
      BY <1>1, <1>2, <2>3 DEF Live, Without, AccountTypeOK
    <3>3. Cardinality(Live(k)) + Cardinality(Creating(k)) <= Cardinality(Request)
      BY DEF AccountInv, LinksBounded, Creating
    <3> QED BY <3>1, <3>2, <3>3
  <2> QED BY <2>2, <2>3
<1>8. Issued' = Issued
  BY <1>4 DEF Issued
<1>9. IssuedInOrder'
  <2>1. \A q \in At("consume")' : q \in At("consume") /\ req'[q].token = req[q].token
    BY <1>3 DEF At
  <2> QED BY <1>8, <2>1 DEF AccountInv, IssuedInOrder
<1>10. LiveIsUnspent'
  BY <1>1, <1>4 DEF AccountInv, LiveIsUnspent
<1> QED BY <1>6, <1>7, <1>9, <1>10 DEF AccountInv

(* The INSERT: one more live link, one request less before its INSERT.     *)
LEMMA CreatesLinkKeeps ==
  ASSUME AccountInv, AccountTypeOK', NEW r \in Request, CreatesLink(r)
  PROVE  AccountInv'
<1> DEFINE n == Cardinality(Issued) + 1
           kind == req[r].kind
<1>1. n \in Token /\ Issued = 1 .. Cardinality(Issued)
  BY NextTokenIsOne DEF CreatesLink
<1>2. /\ req[r].at = "create" /\ spent' = spent /\ Ends(r)
      /\ token' = [token EXCEPT ![n] = [kind |-> kind, state |-> "live"]]
  BY DEF CreatesLink
<1>3. AccountTypeOK /\ IssuedInOrder /\ LiveIsUnspent
  BY DEF AccountInv
<1>4. n \notin Issued
  <2>1. n \in Nat /\ Cardinality(Issued) \in Nat
    BY <1>1, CountsAreNumbers DEF Token, Issued
  <2> QED BY <1>1, <2>1
<1> HIDE DEF n
<1>5. /\ token'[n] = [kind |-> kind, state |-> "live"]
      /\ \A t \in Token : t # n => token'[t] = token[t]
      /\ token[n].state = "unissued"
  BY <1>1, <1>2, <1>3, <1>4 DEF AccountTypeOK, Issued
<1>6. req'[r].at = "idle" /\ \A q \in Request : q # r => req'[q] = req[q]
  BY <1>2, <1>3 DEF Ends, Idle, AccountTypeOK
<1>7. \A t \in Token : Consuming(t)' = Consuming(t)
  BY <1>2, <1>6 DEF Consuming, At
<1>8. SpentBounded'
  <2>1. \A t \in Token : spent[t] + Cardinality(Consuming(t)) <= Cardinality(Request)
    BY DEF AccountInv, SpentBounded, Consuming
  <2>2. \A t \in Token : spent'[t] + Cardinality(Consuming(t)') <= Cardinality(Request)
    BY <1>2, <1>7, <2>1
  <2> QED BY <2>2 DEF SpentBounded, Consuming
<1>9. LinksBounded'
  <2> SUFFICES ASSUME NEW k \in Kind
               PROVE  Cardinality(Live(k)') + Cardinality(Creating(k)') <= Cardinality(Request)
    BY DEF LinksBounded, Creating
  <2>1. Creating(k) \in SUBSET Request /\ Live(k) \in SUBSET Token
    BY DEF Creating, Live, At
  <2>2. /\ IsFiniteSet(Creating(k)) /\ IsFiniteSet(Live(k)) /\ Cardinality(Creating(k)) \in Nat
        /\ Cardinality(Live(k)) \in Nat /\ Cardinality(Request) \in Nat
    BY <2>1, CountsAreNumbers
  <2>3. Cardinality(Live(k)) + Cardinality(Creating(k)) <= Cardinality(Request)
    BY DEF AccountInv, LinksBounded, Creating
  <2>4. CASE k = kind
    <3>1. Creating(k)' = Creating(k) \ {r} /\ r \in Creating(k)
      BY <1>2, <1>6, <2>4 DEF Creating, At
    <3>2. Live(k)' = Live(k) \cup {n} /\ n \notin Live(k)
      BY <1>1, <1>5, <2>4 DEF Live
    <3>3. Cardinality(Creating(k)') = Cardinality(Creating(k)) - 1
      BY <2>2, <3>1, FS_RemoveElement
    <3>4. Cardinality(Live(k)') = Cardinality(Live(k)) + 1
      BY <2>2, <3>2, FS_AddElement
    <3> QED BY <2>2, <2>3, <3>3, <3>4
  <2>5. CASE k # kind
    <3>1. Creating(k)' = Creating(k)
      BY <1>2, <1>6, <2>5 DEF Creating, At
    <3>2. Live(k)' = Live(k)
      BY <1>1, <1>5, <2>5 DEF Live
    <3> QED BY <2>3, <3>1, <3>2
  <2> QED BY <2>4, <2>5
<1>10. Issued' = Issued \cup {n}
  BY <1>1, <1>5 DEF Issued
<1>11. IssuedInOrder'
  <2>1. Issued' = 1 .. n /\ n \in 0 .. MaxTokens
    <3>1. Cardinality(Issued) \in Nat
      BY CountsAreNumbers DEF Issued
    <3> QED BY <1>1, <1>10, <3>1 DEF n, Token
  <2>2. \A q \in At("consume")' : q \in At("consume") /\ req'[q].token = req[q].token
    BY <1>6 DEF At
  <2> QED BY <1>3, <1>10, <2>1, <2>2 DEF IssuedInOrder
<1>12. LiveIsUnspent'
  BY <1>2, <1>3, <1>5 DEF LiveIsUnspent
<1> QED BY <1>8, <1>9, <1>11, <1>12 DEF AccountInv

(* A link that is found unused: whoever is before its UPDATE now, none has *)
(* redeemed it yet.                                                        *)
LEMMA FollowsLinkKeeps ==
  ASSUME AccountInv, AccountTypeOK', NEW r \in Request, NEW t \in Token, FollowsLink(r, t)
  PROVE  AccountInv'
<1>1. /\ req[r].at = "idle" /\ token[t].state = "live" /\ UNCHANGED <<token, spent>>
      /\ req' = [req EXCEPT ![r].at = "consume", ![r].kind = token[t].kind, ![r].token = t]
  BY DEF FollowsLink
<1>2. AccountTypeOK /\ LiveIsUnspent /\ IssuedInOrder
  BY DEF AccountInv
<1>3. /\ req'[r].at = "consume" /\ req'[r].token = t
      /\ \A q \in Request : q # r => req'[q] = req[q]
  BY <1>1, <1>2 DEF AccountTypeOK
<1>4. \A k \in Kind : Creating(k)' = Creating(k) /\ Live(k)' = Live(k)
  BY <1>1, <1>3 DEF Creating, Live, At
<1>5. LinksBounded'
  <2>1. \A k \in Kind : Cardinality(Live(k)) + Cardinality(Creating(k)) <= Cardinality(Request)
    BY DEF AccountInv, LinksBounded, Creating
  <2>2. \A k \in Kind : Cardinality(Live(k)') + Cardinality(Creating(k)') <= Cardinality(Request)
    BY <1>4, <2>1
  <2> QED BY <2>2 DEF LinksBounded, Creating
<1>6. SpentBounded'
  <2> SUFFICES ASSUME NEW u \in Token
               PROVE  spent[u] + Cardinality(Consuming(u)') <= Cardinality(Request)
    BY <1>1 DEF SpentBounded, Consuming
  <2>1. CASE u = t
    <3>1. spent[u] = 0
      BY <1>1, <1>2, <2>1 DEF LiveIsUnspent
    <3>2. Consuming(u)' \in SUBSET Request
      BY DEF Consuming, At
    <3>3. Cardinality(Consuming(u)') \in Nat /\ Cardinality(Consuming(u)') <= Cardinality(Request)
      BY <3>2, CountsAreNumbers
    <3> QED BY <3>1, <3>3
  <2>2. CASE u # t
    <3>1. Consuming(u)' = Consuming(u)
      BY <1>1, <1>3, <2>2 DEF Consuming, At
    <3>2. spent[u] + Cardinality(Consuming(u)) <= Cardinality(Request)
      BY DEF AccountInv, SpentBounded, Consuming
    <3> QED BY <3>1, <3>2
  <2> QED BY <2>1, <2>2
<1>7. IssuedInOrder'
  <2>1. Issued' = Issued /\ t \in Issued
    BY <1>1 DEF Issued
  <2>2. \A q \in At("consume")' : q = r \/ (q \in At("consume") /\ req'[q].token = req[q].token)
    BY <1>3 DEF At
  <2> QED BY <1>2, <1>3, <2>1, <2>2 DEF IssuedInOrder
<1>8. LiveIsUnspent'
  BY <1>1, <1>2 DEF LiveIsUnspent
<1> QED BY <1>5, <1>6, <1>7, <1>8 DEF AccountInv

(* The UPDATE that marks it: one redemption more, one request less before  *)
(* it.                                                                     *)
LEMMA ConsumesKeeps ==
  ASSUME AccountInv, AccountTypeOK', NEW r \in Request, Consumes(r)
  PROVE  AccountInv'
<1> DEFINE t == req[r].token
<1>1. /\ req[r].at = "consume"
      /\ token' = IF token[t].state = "live" THEN [token EXCEPT ![t].state = "used"] ELSE token
      /\ spent' = [spent EXCEPT ![t] = @ + 1]
      /\ Goes(r, "mark") \/ Goes(r, "reset")
  BY DEF Consumes
<1>2. AccountTypeOK /\ LiveIsUnspent /\ IssuedInOrder
  BY DEF AccountInv
<1>3. r \in At("consume") /\ t \in Issued /\ t \in Token
  BY <1>1, <1>2 DEF At, IssuedInOrder, Issued
<1>4. /\ req'[r].at \in {"mark", "reset"}
      /\ \A q \in Request : q # r => req'[q] = req[q]
  BY <1>1, <1>2 DEF AccountTypeOK, Goes
<1> HIDE DEF t
<1>5. /\ \A u \in Token : u # t => token'[u] = token[u] /\ spent'[u] = spent[u]
      /\ token'[t].kind = token[t].kind /\ token'[t].state \notin {"live", "unissued"}
      /\ spent'[t] = spent[t] + 1
  BY <1>1, <1>2, <1>3 DEF AccountTypeOK, Issued
<1>6. LinksBounded'
  <2> SUFFICES ASSUME NEW k \in Kind
               PROVE  Cardinality(Live(k)') + Cardinality(Creating(k)') <= Cardinality(Request)
    BY DEF LinksBounded, Creating
  <2>1. Creating(k)' = Creating(k)
    BY <1>1, <1>4 DEF Creating, At
  <2>2. Live(k)' \subseteq Live(k) /\ Live(k) \subseteq Token
    BY <1>5 DEF Live
  <2>3. Cardinality(Live(k)') <= Cardinality(Live(k)) /\ Cardinality(Live(k)) \in Nat
        /\ Cardinality(Live(k)') \in Nat
    BY <2>2, CountsAreNumbers, FewerIsBounded
  <2>4. Cardinality(Live(k)) + Cardinality(Creating(k)) <= Cardinality(Request)
    BY DEF AccountInv, LinksBounded, Creating
  <2>5. Creating(k) \in SUBSET Request
    BY DEF Creating, At
  <2>6. Cardinality(Creating(k)) \in Nat /\ Cardinality(Request) \in Nat
    BY <2>5, CountsAreNumbers
  <2> QED BY <2>1, <2>3, <2>4, <2>6
<1>7. SpentBounded'
  <2> SUFFICES ASSUME NEW u \in Token
               PROVE  spent'[u] + Cardinality(Consuming(u)') <= Cardinality(Request)
    BY DEF SpentBounded, Consuming
  <2>1. spent[u] + Cardinality(Consuming(u)) <= Cardinality(Request)
    BY DEF AccountInv, SpentBounded, Consuming
  <2>2. CASE u = t
    <3>1. Consuming(u)' = Consuming(u) \ {r} /\ r \in Consuming(u) /\ Consuming(u) \in SUBSET Request
      BY <1>1, <1>4, <2>2 DEF Consuming, At, t
    <3>2. IsFiniteSet(Consuming(u)) /\ Cardinality(Consuming(u)) \in Nat
          /\ Cardinality(Request) \in Nat
      BY <3>1, CountsAreNumbers
    <3>3. Cardinality(Consuming(u)') = Cardinality(Consuming(u)) - 1
      BY <3>1, <3>2, FS_RemoveElement
    <3>4. spent[u] \in Nat
      BY <1>2 DEF AccountTypeOK
    <3> QED BY <1>5, <2>1, <2>2, <3>2, <3>3, <3>4
  <2>3. CASE u # t
    <3>1. Consuming(u)' = Consuming(u)
      BY <1>1, <1>4, <2>3 DEF Consuming, At, t
    <3> QED BY <1>5, <2>1, <2>3, <3>1
  <2> QED BY <2>2, <2>3
<1>8. IssuedInOrder'
  <2>1. Issued' = Issued
    BY <1>3, <1>5 DEF Issued
  <2>2. \A q \in At("consume")' : q \in At("consume") /\ req'[q].token = req[q].token
    BY <1>4 DEF At
  <2> QED BY <1>2, <2>1, <2>2 DEF IssuedInOrder
<1>9. LiveIsUnspent'
  BY <1>2, <1>3, <1>5 DEF LiveIsUnspent
<1> QED BY <1>6, <1>7, <1>8, <1>9 DEF AccountInv

-----------------------------------------------------------------------------
(* One step per action.                                                    *)
LEMMA AccountStep == AccountInv /\ [AccountNext]_accountVars => AccountInv'
<1> SUFFICES ASSUME AccountInv, [AccountNext]_accountVars PROVE AccountInv'
  OBVIOUS
<1>0. AccountTypeOK' /\ AccountTypeOK
  BY TypesAreKept DEF AccountInv
<1>1. ASSUME NEW r \in Request, Registers(r) \/ Inserts(r) PROVE AccountInv'
  <2>1. UNCHANGED <<token, spent>> /\ \A q \in Request : q # r => req'[q] = req[q]
    BY <1>0, <1>1 DEF Registers, Inserts, Goes, AccountTypeOK
  <2>2. req'[r].at \in {"insert", "drop"}
    BY <1>0, <1>1 DEF Registers, Inserts, Goes, Idle, AccountTypeOK
  <2> QED BY <1>0, <2>1, <2>2, MoveKeeps
<1>2. ASSUME NEW r \in Request, NEW k \in Kind, AsksForLink(r, k) PROVE AccountInv'
  <2>1. UNCHANGED <<token, spent>> /\ \A q \in Request : q # r => req'[q] = req[q]
    BY <1>0, <1>2 DEF AsksForLink, AccountTypeOK
  <2>2. req'[r].at = "drop"
    BY <1>0, <1>2 DEF AsksForLink, AccountTypeOK
  <2> QED BY <1>0, <2>1, <2>2, MoveKeeps
<1>3. ASSUME NEW r \in Request, RefusesPassword(r) \/ SetsPassword(r) \/ ClearsAfterReset(r)
      PROVE  AccountInv'
  <2>1. UNCHANGED <<token, spent>> /\ \A q \in Request : q # r => req'[q] = req[q]
    BY <1>0, <1>3 DEF RefusesPassword, SetsPassword, ClearsAfterReset, Goes, AccountTypeOK
  <2>2. req'[r].at \in {"drop", "clear", "mark"}
    BY <1>0, <1>3 DEF RefusesPassword, SetsPassword, ClearsAfterReset, Goes, AccountTypeOK
  <2> QED BY <1>0, <2>1, <2>2, MoveKeeps
<1>4. ASSUME NEW r \in Request, MarksVerified(r) \/ SignsIn(r) PROVE AccountInv'
  <2>1. UNCHANGED <<token, spent>> /\ \A q \in Request : q # r => req'[q] = req[q]
    BY <1>0, <1>4 DEF MarksVerified, SignsIn, Goes, Ends, AccountTypeOK
  <2>2. req'[r].at \in {"idle", "purge", "pass", "fail"}
    BY <1>0, <1>4 DEF MarksVerified, SignsIn, Goes, Ends, Idle, AccountTypeOK
  <2> QED BY <1>0, <2>1, <2>2, MoveKeeps
<1>5. ASSUME NEW r \in Request, Fails(r) \/ Passes(r) \/ Dies(r) PROVE AccountInv'
  <2>1. UNCHANGED <<token, spent>> /\ Ends(r)
    BY <1>5 DEF Fails, Passes, Dies
  <2>2. req'[r].at = "idle" /\ \A q \in Request : q # r => req'[q] = req[q]
    BY <1>0, <2>1 DEF Ends, Idle, AccountTypeOK
  <2> QED BY <1>0, <2>1, <2>2, MoveKeeps
<1>6. ASSUME NEW r \in Request, PurgesLinks(r) PROVE AccountInv'
  <2>1. token' = Without("reset_password") /\ Ends(r) /\ spent' = spent
    BY <1>6 DEF PurgesLinks
  <2>2. req'[r].at = "idle" /\ \A q \in Request : q # r => req'[q] = req[q]
    BY <1>0, <2>1 DEF Ends, Idle, AccountTypeOK
  <2>3. \A t \in Token : token'[t] = token[t]
                         \/ (token'[t].state = "gone" /\ token[t].state # "unissued")
    BY <1>0, <2>1 DEF Without, AccountTypeOK
  <2>4. \A q \in At("consume")' : q \in At("consume") /\ req'[q].token = req[q].token
    BY <2>2 DEF At
  <2>5. \A q \in At("create")' : q \in At("create") /\ req'[q].kind = req[q].kind
    BY <2>2 DEF At
  <2> QED BY <1>0, <2>1, <2>3, <2>4, <2>5, FewerKeeps
<1>7. CASE UNCHANGED <<token, spent, req>>
  <2>1. \A step : At(step)' = At(step)
    BY <1>7 DEF At
  <2> QED BY <1>0, <1>7, <2>1, FewerKeeps
<1>8. ASSUME NEW t \in Token, Outdates(t) PROVE AccountInv'
  BY <1>7, <1>8 DEF Outdates
<1>9. CASE LockLapses \/ Closes
  BY <1>7, <1>9 DEF LockLapses, Closes
<1>10. CASE UNCHANGED accountVars
  BY <1>7, <1>10 DEF accountVars
<1> QED
  BY <1>0, <1>1, <1>2, <1>3, <1>4, <1>5, <1>6, <1>8, <1>9, <1>10, DropsOldLinksKeeps,
     CreatesLinkKeeps, FollowsLinkKeeps, ConsumesKeeps
  DEF AccountNext

(* Types, the order of issue and both bounds hold in every state.          *)
THEOREM AccountInvariant == AccountSpec => []AccountInv
<1>1. AccountInit => AccountInv
  <2> SUFFICES ASSUME AccountInit PROVE AccountInv
    OBVIOUS
  <2>1. AccountTypeOK
    BY ReaderAssumption DEF AccountInit, AccountTypeOK, NoReader, Idle, Kind
  <2>2. Issued = 1 .. 0 /\ At("consume") = {} /\ 0 \in 0 .. MaxTokens
    BY ReaderAssumption DEF AccountInit, Issued, At, Idle
  <2>3. IssuedInOrder /\ LiveIsUnspent
    BY <2>2 DEF IssuedInOrder, LiveIsUnspent, AccountInit
  <2>4. Cardinality(Request) \in Nat
    BY CountsAreNumbers
  <2>5. LinksBounded
    <3>1. \A k \in Kind : Live(k) = {} /\ Creating(k) = {}
      BY DEF AccountInit, Live, Creating, At, Idle
    <3>2. \A k \in Kind : Cardinality(Live(k)) + Cardinality(Creating(k)) <= Cardinality(Request)
      BY <2>4, <3>1, FS_EmptySet
    <3> QED BY <3>2 DEF LinksBounded, Creating
  <2>6. SpentBounded
    <3>1. \A t \in Token : Consuming(t) = {} /\ spent[t] = 0
      BY <2>2 DEF AccountInit, Consuming
    <3>2. \A t \in Token : spent[t] + Cardinality(Consuming(t)) <= Cardinality(Request)
      BY <2>4, <3>1, FS_EmptySet
    <3> QED BY <3>2 DEF SpentBounded, Consuming
  <2> QED BY <2>1, <2>3, <2>5, <2>6 DEF AccountInv
<1> QED BY <1>1, AccountStep, PTL DEF AccountSpec

(* The account, its links and the requests keep the types of their rows.   *)
THEOREM AccountTypeCorrect == AccountSpec => []AccountTypeOK
<1>1. AccountInv => AccountTypeOK
  BY DEF AccountInv
<1> QED BY <1>1, AccountInvariant, PTL

(* Never more live links of a kind than requests served at a time: what    *)
(* remains of "requesting a new link invalidates the old one" when the     *)
(* DELETE and the INSERT of several requests interleave.                   *)
THEOREM LinksBoundedForAll == AccountSpec => []LinksBounded
<1>1. AccountInv => LinksBounded
  BY DEF AccountInv
<1> QED BY <1>1, AccountInvariant, PTL

(* A link is redeemed only by requests that found it unused before it was  *)
(* marked: with one request at a time it is redeemed once.                 *)
THEOREM SpentBoundedForAll == AccountSpec => []SpentBounded
<1>1. AccountInv => SpentBounded
  BY DEF AccountInv
<1> QED BY <1>1, AccountInvariant, PTL
-----------------------------------------------------------------------------
(* The lockout.  A failure let in while fewer than the limit were counted  *)
(* lifts a lock when it is written; every later one sets it.               *)
Failing == At("fail")
Early == {r \in At("fail") : req[r].seen + 1 < MaxAttempts}

(* Twice the failures that l early ones can still let in, themselves not   *)
(* counted: between one and the next, a new failure from each request that *)
(* is free.                                                                *)
Room(n, l) == l * (2 * n - l + 1)
Served == Cardinality(Request)

(* What the counters and the failures under way say of those to come: once *)
(* the limit is near, nobody new can lift a lock, and every failure counted *)
(* uses up some of the room.                                               *)
LockTurns ==
  /\ reader.status = "none" => reader.attempts = 0 /\ ~reader.locked /\ Failing = {}
  /\ wrong <= reader.attempts
  /\ reader.attempts >= MaxAttempts - 1 =>
       /\ Cardinality(Early) <= Served - 1
       /\ 2 * wrong + Room(Served, Cardinality(Early))
            + 2 * (IF reader.locked THEN Cardinality(Failing) ELSE Served)
          <= 2 * (MaxAttempts - 1) + Served * (Served + 1) + 2 * (Served - 1)

(* More early failures, more room.                                         *)
LEMMA RoomGrows ==
  ASSUME NEW n \in Nat, NEW l \in 0 .. n, NEW k \in 0 .. l
  PROVE  Room(n, k) \in Nat /\ Room(n, l) \in Nat /\ Room(n, k) <= Room(n, l)
<1>1. Room(n, l) - Room(n, k) = (l - k) * (2 * n + 1 - l - k)
  BY DEF Room
<1>2. (l - k) * (2 * n + 1 - l - k) >= 0
  <2> DEFINE a == l - k
             b == 2 * n + 1 - l - k
  <2>1. a \in Nat /\ b \in Nat
    OBVIOUS
  <2> HIDE DEF a, b
  <2> QED BY <2>1 DEF a, b
<1>3. ASSUME NEW j \in 0 .. n PROVE Room(n, j) \in Nat
  <2> DEFINE c == 2 * n - j + 1
  <2>1. j \in Nat /\ c \in Nat
    OBVIOUS
  <2>2. j * c \in Nat
    <3> HIDE DEF c
    <3> QED BY <2>1
  <2> QED BY <2>2 DEF Room
<1>4. Room(n, k) \in Nat /\ Room(n, l) \in Nat
  BY <1>3
<1> QED BY <1>1, <1>2, <1>4

(* One early failure less takes this much.                                 *)
LEMMA RoomStep ==
  ASSUME NEW n \in Nat, NEW l \in 1 .. n
  PROVE  Room(n, l) = Room(n, l - 1) + 2 * n - 2 * l + 2
  BY DEF Room

(* The room of all requests but one.                                       *)
LEMMA RoomBound ==
  ASSUME NEW n \in Nat, NEW l \in Nat, l <= n - 1
  PROVE  /\ Room(n, l) \in Nat
         /\ Room(n, l) + 2 * n <= n * (n + 1) + 2 * (n - 1)
<1>1. Room(n, n - 1) + 2 * n = n * (n + 1) + 2 * (n - 1)
  BY DEF Room
<1>2. n - 1 \in 0 .. n /\ l \in 0 .. (n - 1)
  OBVIOUS
<1>3. Room(n, l) \in Nat /\ Room(n, n - 1) \in Nat /\ Room(n, l) <= Room(n, n - 1)
  BY <1>2, RoomGrows
<1> QED BY <1>1, <1>3

(* How many failures there are.                                            *)
LEMMA FailureCounts ==
  /\ IsFiniteSet(Failing) /\ IsFiniteSet(Early) /\ Early \subseteq Failing
  /\ Served \in Nat /\ Cardinality(Failing) \in Nat /\ Cardinality(Early) \in Nat
  /\ Cardinality(Early) <= Cardinality(Failing) /\ Cardinality(Failing) <= Served
<1>1. Failing \subseteq Request /\ Early \subseteq Failing
  BY DEF Failing, Early, At
<1> QED BY <1>1, FewerIsBounded, ReaderAssumption DEF Served

(* Types of what the lockout counts.                                       *)
LEMMA CountersTyped ==
  ASSUME AccountTypeOK
  PROVE  /\ reader.attempts \in Nat /\ wrong \in Nat /\ reader.locked \in BOOLEAN
         /\ \A r \in Request : req[r].seen \in Nat
         /\ MaxAttempts \in Nat \ {0}
  BY ReaderAssumption DEF AccountTypeOK

(* A step that lets nobody else fail leaves no more failures under way.    *)
LEMMA FewerFailures ==
  ASSUME \A r \in Failing' : r \in Failing /\ req'[r].seen = req[r].seen
  PROVE  /\ Failing' \subseteq Failing /\ Early' \subseteq Early
         /\ Cardinality(Failing)' \in Nat /\ Cardinality(Failing)' <= Cardinality(Failing)
         /\ Cardinality(Early)' \in Nat /\ Cardinality(Early)' <= Cardinality(Early)
         /\ Cardinality(Early)' <= Cardinality(Failing)'
<1>1. Failing' \subseteq Failing /\ Early' \subseteq Early /\ Early' \subseteq Failing'
  BY DEF Failing, Early
<1>2. IsFiniteSet(Failing)' /\ Cardinality(Failing)' \in Nat
      /\ Cardinality(Failing)' <= Cardinality(Failing)
  BY <1>1, FailureCounts, FewerIsBounded
<1>3. Cardinality(Early)' \in Nat /\ Cardinality(Early)' <= Cardinality(Early)
  BY <1>1, FailureCounts, FewerIsBounded
<1>4. Cardinality(Early)' <= Cardinality(Failing)'
  BY <1>1, <1>2, FewerIsBounded
<1> QED BY <1>1, <1>2, <1>3, <1>4

(* It keeps the room, too, if it leaves the counters alone.                *)
LEMMA QuietKeepsTurns ==
  ASSUME AccountTypeOK, LockTurns, wrong' = wrong,
         reader'.attempts = reader.attempts, reader'.locked = reader.locked,
         reader'.status = "none" => reader.status = "none",
         \A r \in Failing' : r \in Failing /\ req'[r].seen = req[r].seen
  PROVE  LockTurns'
<1> DEFINE e == Cardinality(Early)
           f == Cardinality(Failing)
<1>1. /\ e \in Nat /\ f \in Nat /\ Served \in Nat /\ e <= Served
      /\ e' \in Nat /\ f' \in Nat /\ e' <= e /\ f' <= f
  BY FailureCounts, FewerFailures
<1>2. Room(Served, e') \in Nat /\ Room(Served, e) \in Nat /\ Room(Served, e') <= Room(Served, e)
  <2> HIDE DEF e, f
  <2>1. e \in 0 .. Served /\ e' \in 0 .. e
    BY <1>1
  <2> QED BY <1>1, <2>1, RoomGrows
<1>3. Served' = Served
  BY DEF Served
<1>4. reader.attempts >= MaxAttempts - 1 =>
        /\ e <= Served - 1
        /\ 2 * wrong + Room(Served, e) + 2 * (IF reader.locked THEN f ELSE Served)
             <= 2 * (MaxAttempts - 1) + Served * (Served + 1) + 2 * (Served - 1)
  BY DEF LockTurns
<1>5. ASSUME reader'.attempts >= MaxAttempts - 1
      PROVE  /\ e' <= Served - 1
             /\ 2 * wrong' + Room(Served, e') + 2 * (IF reader'.locked THEN f' ELSE Served)
                  <= 2 * (MaxAttempts - 1) + Served * (Served + 1) + 2 * (Served - 1)
  <2> DEFINE b == 2 * (MaxAttempts - 1) + Served * (Served + 1) + 2 * (Served - 1)
  <2>1. b \in Int /\ wrong \in Nat
    BY <1>1, CountersTyped
  <2> HIDE DEF e, f, b
  <2>2. e <= Served - 1 /\ 2 * wrong + Room(Served, e) + 2 * (IF reader.locked THEN f ELSE Served) <= b
    BY <1>4, <1>5 DEF b
  <2>3. e' <= Served - 1 /\ 2 * wrong + Room(Served, e') + 2 * (IF reader.locked THEN f' ELSE Served) <= b
    BY <1>1, <1>2, <2>1, <2>2
  <2> QED BY <2>3 DEF b
<1>6. reader'.status = "none" => reader'.attempts = 0 /\ ~reader'.locked /\ Failing' = {}
  BY FewerFailures DEF LockTurns
<1>7. wrong' <= reader'.attempts
  BY DEF LockTurns
<1> QED BY <1>3, <1>5, <1>6, <1>7 DEF LockTurns

(* A failure counter at zero, or a lock that lapsed, begins a new turn.    *)
LEMMA NewTurn ==
  ASSUME AccountTypeOK, LockTurns, Request # {}, wrong' = 0, ~reader'.locked,
         \/ reader'.attempts = 0
         \/ reader'.attempts = reader.attempts,
         reader'.status = "none" => reader'.attempts = 0 /\ Failing' = {},
         \A r \in Failing' : r \in Failing /\ req'[r].seen = req[r].seen
  PROVE  LockTurns'
<1> DEFINE e == Cardinality(Early)
<1>1. /\ e \in Nat /\ Served \in Nat /\ e' \in Nat /\ e' <= e
      /\ reader.attempts \in Nat /\ MaxAttempts \in Nat \ {0}
  BY FailureCounts, FewerFailures, CountersTyped
<1>2. Served >= 1
  BY FS_EmptySet, ReaderAssumption, FS_CardinalityType DEF Served
<1>3. Served' = Served
  BY DEF Served
<1>4. ASSUME reader'.attempts >= MaxAttempts - 1
      PROVE  e' <= Served - 1
  <2>1. CASE reader'.attempts = 0
    <3>1. MaxAttempts = 1
      BY <1>1, <1>4, <2>1
    <3>2. Early = {}
      BY <3>1, CountersTyped DEF Early, At
    <3>3. e = 0
      BY <3>2, FS_EmptySet
    <3> QED BY <1>1, <1>2, <3>3
  <2>2. CASE reader'.attempts = reader.attempts
    <3>1. e <= Served - 1
      BY <1>4, <2>2 DEF LockTurns
    <3> QED BY <1>1, <3>1
  <2> QED BY <2>1, <2>2
<1>5. ASSUME reader'.attempts >= MaxAttempts - 1
      PROVE  2 * wrong' + Room(Served, e') + 2 * (IF reader'.locked THEN Cardinality(Failing') ELSE Served)
                <= 2 * (MaxAttempts - 1) + Served * (Served + 1) + 2 * (Served - 1)
  <2>1. Room(Served, e') \in Nat /\ Room(Served, e') + 2 * Served <= Served * (Served + 1) + 2 * (Served - 1)
    <3> HIDE DEF e
    <3> QED BY <1>1, <1>4, <1>5, RoomBound
  <2> DEFINE b == Served * (Served + 1) + 2 * (Served - 1)
  <2>2. b \in Int
    BY <1>1
  <2>3. Room(Served, e') + 2 * Served <= b
    BY <2>1
  <2> HIDE DEF e, b
  <2>4. 2 * wrong' + Room(Served, e') + 2 * Served <= 2 * (MaxAttempts - 1) + b
    BY <1>1, <2>1, <2>2, <2>3
  <2> QED BY <1>1, <2>4 DEF b
<1>6. wrong' <= reader'.attempts
  BY <1>1
<1> QED BY <1>3, <1>4, <1>5, <1>6 DEF LockTurns
(* A request that begins to fail reads the counter: near the limit it is   *)
(* not early.                                                              *)
LEMMA SignInKeepsTurns ==
  ASSUME AccountTypeOK, LockTurns, NEW r \in Request, SignsIn(r)
  PROVE  LockTurns'
<1>0. req \in [Request -> Locals]
  BY DEF AccountTypeOK, Locals, RequestSteps
<1>1. CASE Goes(r, "pass")
  <2>1. \A q \in Failing' : q \in Failing /\ req'[q].seen = req[q].seen
    BY <1>0, <1>1 DEF Goes, Failing, At, SignsIn
  <2> QED BY <2>1, QuietKeepsTurns DEF SignsIn
<1>2. CASE req' = [req EXCEPT ![r].at = "fail", ![r].seen = reader.attempts]
  <2>1. /\ req'[r].seen = reader.attempts
        /\ \A q \in Request : q # r => req'[q] = req[q]
        /\ req[r].at = "idle"
    BY <1>0, <1>2 DEF SignsIn, Locals
  <2>2. UNCHANGED <<reader, wrong>> /\ reader.status = "active" /\ ~reader.locked
    BY DEF SignsIn
  <2>3. ASSUME reader.attempts >= MaxAttempts - 1
        PROVE  Early' = Early
    <3>1. ~(reader.attempts + 1 < MaxAttempts)
      BY <2>3, CountersTyped
    <3> QED BY <2>1, <3>1 DEF Early, At
  <2>4. Served' = Served
    BY DEF Served
  <2> QED BY <2>2, <2>3, <2>4 DEF LockTurns
<1> QED BY <1>1, <1>2 DEF SignsIn

(* A failure is counted: an early one lifts the lock and takes its share   *)
(* of the room, any other sets it.                                         *)
LEMMA FailKeepsTurns ==
  ASSUME AccountTypeOK, LockTurns, NEW r \in Request, Fails(r)
  PROVE  LockTurns'
<1> DEFINE e == Cardinality(Early)
           f == Cardinality(Failing)
           a == reader.attempts
           b == 2 * (MaxAttempts - 1) + Served * (Served + 1) + 2 * (Served - 1)
<1>0. req \in [Request -> Locals]
  BY DEF AccountTypeOK, Locals, RequestSteps
<1>1. /\ r \in Failing
      /\ \A q \in Request : q # r => req'[q] = req[q]
      /\ req'[r].at = "idle"
      /\ wrong' = wrong + 1 /\ reader'.attempts = a + 1 /\ reader'.status = reader.status
  BY <1>0 DEF Fails, Ends, Idle, Failing, At, AccountTypeOK
<1>2. Failing' = Failing \ {r} /\ Early' = Early \ {r}
  BY <1>1 DEF Failing, Early, At
<1>3. /\ e \in Nat /\ f \in Nat /\ Served \in Nat /\ e <= f /\ f <= Served
      /\ a \in Nat /\ wrong \in Nat /\ MaxAttempts \in Nat \ {0} /\ req[r].seen \in Nat
  BY FailureCounts, CountersTyped
<1>4. f' = f - 1 /\ f' \in Nat
  <2>1. /\ IsFiniteSet(Failing \ {r})
        /\ Cardinality(Failing \ {r}) = Cardinality(Failing) - 1
    BY <1>1, FailureCounts, FS_RemoveElement
  <2>2. Cardinality(Failing \ {r}) \in Nat
    BY <2>1, FS_CardinalityType
  <2> QED BY <1>2, <2>1, <2>2
<1>5. e' = (IF r \in Early THEN e - 1 ELSE e) /\ e' \in Nat /\ e' <= f'
  <2>1. e' = IF r \in Early THEN e - 1 ELSE e
    <3>1. CASE r \in Early
      BY <1>2, <3>1, FailureCounts, FS_RemoveElement
    <3>2. CASE r \notin Early
      <4>1. Early' = Early
        BY <1>2, <3>2
      <4> QED BY <3>2, <4>1
    <3> QED BY <3>1, <3>2
  <2>2. IsFiniteSet(Failing') /\ Early' \subseteq Failing'
    BY <1>2, FailureCounts, FS_RemoveElement
  <2>3. e' \in Nat /\ e' <= f'
    BY <2>2, FewerIsBounded
  <2> QED BY <2>1, <2>3
<1>6. Served' = Served /\ b' = b /\ b \in Int
  BY <1>3 DEF Served
<1>7. /\ wrong <= a
      /\ a >= MaxAttempts - 1 =>
           /\ e <= Served - 1
           /\ 2 * wrong + Room(Served, e) + 2 * (IF reader.locked THEN f ELSE Served) <= b
  BY DEF LockTurns
<1>8. r \in Early <=> ~reader'.locked
  <2>1. reader'.locked <=> req[r].seen + 1 >= MaxAttempts
    BY DEF Fails, AccountTypeOK
  <2>2. r \in Early <=> req[r].seen + 1 < MaxAttempts
    BY <1>1 DEF Failing, Early
  <2> QED BY <1>3, <2>1, <2>2
<1>9. ASSUME a + 1 >= MaxAttempts - 1
      PROVE  /\ e' <= Served - 1
             /\ 2 * (wrong + 1) + Room(Served, e') + 2 * (IF reader'.locked THEN f' ELSE Served) <= b
  <2>1. CASE a < MaxAttempts - 1
    <3>1. e' <= Served - 1
      <4> HIDE DEF e, f
      <4> QED BY <1>3, <1>4, <1>5
    <3>2. /\ Room(Served, e') \in Nat
          /\ Room(Served, e') + 2 * Served <= Served * (Served + 1) + 2 * (Served - 1)
      <4> HIDE DEF e
      <4> QED BY <1>3, <1>5, <3>1, RoomBound
    <3> DEFINE c == Served * (Served + 1) + 2 * (Served - 1)
    <3>3. c \in Int /\ b = 2 * (MaxAttempts - 1) + c
      BY <1>3
    <3>4. Room(Served, e') \in Nat /\ Room(Served, e') + 2 * Served <= c
      BY <3>2
    <3>5. wrong + 1 <= MaxAttempts - 1
      BY <1>3, <1>7, <1>9, <2>1
    <3> HIDE DEF c, b, e, f, a
    <3> QED BY <1>3, <1>4, <1>5, <3>1, <3>3, <3>4, <3>5
  <2>2. CASE a >= MaxAttempts - 1
    <3>1. /\ e <= Served - 1
          /\ 2 * wrong + Room(Served, e) + 2 * (IF reader.locked THEN f ELSE Served) <= b
      BY <1>7, <2>2
    <3>2. Room(Served, e) \in Int
      <4> HIDE DEF e, f
      <4> QED BY <1>3, <3>1, RoomBound
    <3>3. CASE r \in Early
      <4>1. e >= 1
        <5> HIDE DEF e
        <5> QED BY <1>3, <1>5, <3>3
      <4>2. Room(Served, e) = Room(Served, e - 1) + 2 * Served - 2 * e + 2
        <5> HIDE DEF e, f
        <5> QED BY <1>3, <4>1, RoomStep
      <4>3. Room(Served, e - 1) \in Int
        BY <1>3 DEF Room
      <4> HIDE DEF e, f, a, b
      <4> QED BY <1>3, <1>5, <1>6, <1>8, <3>1, <3>2, <3>3, <4>1, <4>2, <4>3
    <3>4. CASE r \notin Early
      <4> HIDE DEF e, f, a, b
      <4> QED BY <1>3, <1>4, <1>5, <1>6, <1>8, <3>1, <3>2, <3>4
    <3> QED BY <3>3, <3>4
  <2> QED BY <1>3, <2>1, <2>2
<1>10. reader'.status # "none"
  BY <1>1 DEF LockTurns
<1>11. wrong' <= reader'.attempts
  BY <1>1, <1>3, <1>7
<1> QED BY <1>1, <1>6, <1>9, <1>10, <1>11 DEF LockTurns

(* Every step of the account keeps the turns of its lock.                  *)
LEMMA TurnsStep ==
  ASSUME Request # {}, AccountTypeOK, LockTurns, [AccountNext]_accountVars
  PROVE  LockTurns'
<1>0. req \in [Request -> Locals]
  BY DEF AccountTypeOK, Locals, RequestSteps
<1>F. ASSUME NEW r \in Request, \A q \in Request : q # r => req'[q] = req[q], req'[r].at # "fail"
      PROVE  \A q \in Failing' : q \in Failing /\ req'[q].seen = req[q].seen
  BY <1>F DEF Failing, At
<1>1. ASSUME NEW r \in Request,
             \/ Registers(r) \/ DropsOldLinks(r) \/ CreatesLink(r) \/ Consumes(r)
             \/ RefusesPassword(r) \/ SetsPassword(r) \/ MarksVerified(r) \/ PurgesLinks(r)
             \/ Dies(r)
             \/ \E k \in Kind : AsksForLink(r, k)
             \/ \E t \in Token : FollowsLink(r, t)
      PROVE  LockTurns'
  <2>1. /\ \A q \in Request : q # r => req'[q] = req[q]
        /\ req'[r].at # "fail"
    <3>0. ASSUME NEW step \in {"insert", "create", "mark", "reset", "clear", "purge"}, Goes(r, step)
          PROVE  /\ \A q \in Request : q # r => req'[q] = req[q]
                 /\ req'[r].at # "fail"
      BY <1>0, <3>0 DEF Goes, Locals
    <3>1. CASE Ends(r)
      BY <1>0, <3>1 DEF Ends, Idle
    <3>2. CASE RefusesPassword(r)
      BY <1>0, <3>2 DEF RefusesPassword, Locals
    <3>3. CASE \E k \in Kind : AsksForLink(r, k)
      BY <1>0, <3>3 DEF AsksForLink, Locals
    <3>4. CASE \E t \in Token : FollowsLink(r, t)
      BY <1>0, <3>4 DEF FollowsLink, Locals
    <3> QED
      BY <1>1, <3>0, <3>1, <3>2, <3>3, <3>4
      DEF Registers, DropsOldLinks, CreatesLink, Consumes, SetsPassword, MarksVerified,
          PurgesLinks, Dies
  <2>2. wrong' = wrong
    BY <1>1 DEF Registers, DropsOldLinks, CreatesLink, Consumes, RefusesPassword, SetsPassword,
                MarksVerified, PurgesLinks, Dies, AsksForLink, FollowsLink
  <2>3. reader' = reader \/ reader' = [reader EXCEPT !.verified = TRUE]
    BY <1>1 DEF Registers, DropsOldLinks, CreatesLink, Consumes, RefusesPassword, SetsPassword,
                MarksVerified, PurgesLinks, Dies, AsksForLink, FollowsLink
  <2>4. reader'.attempts = reader.attempts /\ reader'.locked = reader.locked
        /\ reader'.status = reader.status
    BY <2>3 DEF AccountTypeOK
  <2>5. \A q \in Failing' : q \in Failing /\ req'[q].seen = req[q].seen
    BY <1>F, <2>1
  <2> QED BY <2>2, <2>4, <2>5, QuietKeepsTurns
<1>2. ASSUME NEW r \in Request, Inserts(r) PROVE LockTurns'
  <2>1. \A q \in Failing' : q \in Failing /\ req'[q].seen = req[q].seen
    BY <1>0, <1>2, <1>F DEF Inserts, Idle
  <2>2. reader'.attempts = reader.attempts /\ reader'.locked = reader.locked
        /\ (reader'.status = "none" => reader.status = "none")
    BY <1>2 DEF Inserts, NoReader, LockTurns, AccountTypeOK
  <2> QED BY <1>2, <2>1, <2>2, QuietKeepsTurns DEF Inserts
<1>3. ASSUME NEW r \in Request, Passes(r) \/ ClearsAfterReset(r) PROVE LockTurns'
  <2>1. \A q \in Failing' : q \in Failing /\ req'[q].seen = req[q].seen
    <3>1. CASE Goes(r, "mark")
      BY <1>0, <1>F, <3>1 DEF Goes, Locals
    <3>2. CASE Ends(r)
      BY <1>0, <1>F, <3>2 DEF Ends, Idle
    <3> QED BY <1>3, <3>1, <3>2 DEF Passes, ClearsAfterReset
  <2>2. wrong' = 0 /\ reader' = [reader EXCEPT !.attempts = 0, !.locked = FALSE]
    BY <1>3 DEF Passes, ClearsAfterReset, Cleared
  <2>3. reader'.attempts = 0 /\ ~reader'.locked /\ reader'.status = reader.status
    BY <2>2 DEF AccountTypeOK
  <2>4. reader'.status = "none" => Failing' = {}
    BY <2>1, <2>3 DEF LockTurns
  <2> QED BY <2>1, <2>2, <2>3, <2>4, NewTurn
<1>4. CASE LockLapses
  <2>1. /\ wrong' = 0 /\ req' = req
        /\ reader'.attempts = reader.attempts /\ ~reader'.locked /\ reader'.status = reader.status
    BY <1>4 DEF LockLapses, AccountTypeOK
  <2>2. \A q \in Failing' : q \in Failing /\ req'[q].seen = req[q].seen
    BY <2>1 DEF Failing, At
  <2>3. reader'.status = "none" => reader'.attempts = 0 /\ Failing' = {}
    BY <2>1, <2>2 DEF LockTurns
  <2> QED BY <2>1, <2>2, <2>3, NewTurn
<1>5. CASE \/ Closes \/ \E t \in Token : Outdates(t)
           \/ UNCHANGED accountVars
  <2>1. /\ wrong' = wrong /\ req' = req
        /\ reader' = reader \/ reader' = [reader EXCEPT !.status = "closed"]
    BY <1>5 DEF Closes, Outdates, accountVars
  <2>2. reader'.attempts = reader.attempts /\ reader'.locked = reader.locked
        /\ (reader'.status = "none" => reader.status = "none")
    BY <2>1 DEF AccountTypeOK
  <2>3. \A q \in Failing' : q \in Failing /\ req'[q].seen = req[q].seen
    BY <2>1 DEF Failing, At
  <2> QED BY <2>1, <2>2, <2>3, QuietKeepsTurns
<1> QED
  BY <1>1, <1>2, <1>3, <1>4, <1>5, SignInKeepsTurns, FailKeepsTurns DEF AccountNext

(* The lockout lets in no more failures than this, between two lapses or   *)
(* successes, however requests overlap: the limit when they come one at a  *)
(* time, and a quadratic number more of them otherwise.                    *)
THEOREM GuessesBoundedForAll ==
  ASSUME Request # {}
  PROVE  AccountSpec => []GuessesBounded
<1>0. Served \in Nat /\ Served >= 1
  BY FS_EmptySet, ReaderAssumption, FS_CardinalityType DEF Served
<1>1. AccountInit => LockTurns
  <2> SUFFICES ASSUME AccountInit PROVE LockTurns
    OBVIOUS
  <2>1. reader = NoReader /\ wrong = 0 /\ Failing = {} /\ Early = {}
    BY DEF AccountInit, Failing, Early, At, Idle
  <2>2. Cardinality(Early) = 0 /\ Cardinality(Failing) = 0
    BY <2>1, FS_EmptySet
  <2>3. Room(Served, 0) \in Nat /\ Room(Served, 0) + 2 * Served <= Served * (Served + 1) + 2 * (Served - 1)
    BY <1>0, RoomBound
  <2>4. ASSUME 0 >= MaxAttempts - 1
        PROVE  Room(Served, 0) + 2 * Served
                 <= 2 * (MaxAttempts - 1) + Served * (Served + 1) + 2 * (Served - 1)
    <3>1. MaxAttempts = 1
      BY <2>4, ReaderAssumption
    <3> QED BY <1>0, <2>3, <3>1
  <2>5. 0 <= Served - 1
    BY <1>0
  <2>6. reader.attempts = 0 /\ ~reader.locked
    BY <2>1 DEF NoReader
  <2>7. ASSUME reader.attempts >= MaxAttempts - 1
        PROVE  /\ Cardinality(Early) <= Served - 1
               /\ 2 * wrong + Room(Served, Cardinality(Early))
                    + 2 * (IF reader.locked THEN Cardinality(Failing) ELSE Served)
                  <= 2 * (MaxAttempts - 1) + Served * (Served + 1) + 2 * (Served - 1)
    <3> DEFINE b == 2 * (MaxAttempts - 1) + Served * (Served + 1) + 2 * (Served - 1)
    <3>1. Room(Served, 0) + 2 * Served <= b
      BY <2>4, <2>6, <2>7
    <3> HIDE DEF b
    <3>2. 2 * wrong + Room(Served, 0) + 2 * (IF reader.locked THEN 0 ELSE Served) <= b
      BY <1>0, <2>1, <2>3, <2>6, <3>1
    <3> QED BY <2>2, <2>5, <3>2 DEF b
  <2> QED BY <2>1, <2>6, <2>7 DEF LockTurns
<1>2. AccountTypeOK /\ LockTurns => GuessesBounded
  <2> SUFFICES ASSUME AccountTypeOK, LockTurns
               PROVE  wrong <= MaxAttempts - 1 + (Served * (Served + 1)) \div 2 + Served - 1
    BY DEF GuessesBounded, Served
  <2> DEFINE s == Served * (Served + 1)
  <2>1. s \in Nat /\ wrong \in Nat /\ MaxAttempts \in Nat \ {0} /\ reader.attempts \in Nat
    BY <1>0, CountersTyped
  <2>2. CASE reader.attempts >= MaxAttempts - 1
    <3>1. 2 * wrong + Room(Served, Cardinality(Early))
            + 2 * (IF reader.locked THEN Cardinality(Failing) ELSE Served)
          <= 2 * (MaxAttempts - 1) + s + 2 * (Served - 1)
      BY <2>2 DEF LockTurns
    <3>2. Room(Served, Cardinality(Early)) \in Nat
      BY <2>2, <1>0, FailureCounts, RoomBound DEF LockTurns
    <3>3. Cardinality(Failing) \in Nat
      BY FailureCounts
    <3> HIDE DEF s
    <3>4. 2 * wrong <= 2 * (MaxAttempts - 1) + s + 2 * (Served - 1)
      BY <1>0, <2>1, <3>1, <3>2, <3>3
    <3>5. wrong <= MaxAttempts - 1 + s \div 2 + Served - 1
      BY <1>0, <2>1, <3>4
    <3> QED BY <3>5 DEF s
  <2>3. CASE reader.attempts < MaxAttempts - 1
    <3>1. wrong < MaxAttempts - 1
      BY <2>1, <2>3 DEF LockTurns
    <3> HIDE DEF s
    <3>2. wrong <= MaxAttempts - 1 + s \div 2 + Served - 1
      BY <1>0, <2>1, <3>1
    <3> QED BY <3>2 DEF s
  <2> QED BY <2>1, <2>2, <2>3
<1>3. AccountInv => AccountTypeOK
  BY DEF AccountInv
<1> QED
  BY <1>1, <1>2, <1>3, TurnsStep, AccountInvariant, PTL DEF AccountSpec

-----------------------------------------------------------------------------
(* Vouchers.                                                               *)

(* Types of the offer, the claims and the transactions.                    *)
VouchersTypeOK ==
  /\ cap \in Caps
  /\ rowlock \in Claimer \cup {NoClaimer}
  /\ claims \in [Holder -> Nat]
  /\ claimer \in [Claimer -> [step : {"none", "trigger", "count", "inserted"},
                              holder : Holder, rows : Nat]]

(* Whoever has passed the lock still holds it, with or without rows.       *)
LockIsHeld ==
  \A c \in Claimer :
    /\ claimer[c].step = "none" => claimer[c].rows = 0
    /\ claimer[c].step \in {"count", "inserted"} \/ claimer[c].rows > 0 => rowlock = c

(* Rows that are inserted and not committed fit the cap beside the         *)
(* committed ones: nobody else can commit or change the cap meanwhile.     *)
OwnRowsFit ==
  \A c \in Claimer :
    claimer[c].rows > 0 => claims[claimer[c].holder] + claimer[c].rows <= cap

VouchersInv == VouchersTypeOK /\ LockIsHeld /\ OwnRowsFit

(* No transaction is open in the beginning.                                *)
LEMMA VouchersInitInv == VouchersInit => VouchersInv
<1> SUFFICES ASSUME VouchersInit PROVE VouchersInv
  OBVIOUS
<1>1. \E r \in Holder : TRUE
  BY VoucherAssumption
<1>2. (CHOOSE r \in Holder : TRUE) \in Holder
  BY <1>1
<1> QED
  BY <1>2 DEF VouchersInit, VouchersInv, VouchersTypeOK, LockIsHeld, OwnRowsFit, NoClaim

(* A transaction that ends leaves no rows behind and no lock.              *)
LEMMA ClaimEndsInv ==
  ASSUME VouchersInv, NEW c \in Claimer, ClaimEnds(c), UNCHANGED cap,
         claims' \in [Holder -> Nat],
         \A h \in Holder : claims'[h] <= claims[h]
           \/ (rowlock = c /\ claims'[h] <= cap)
  PROVE  VouchersInv'
<1> USE DEF VouchersInv, VouchersTypeOK, ClaimEnds, NoClaim
<1>1. VouchersTypeOK'
  OBVIOUS
<1>2. LockIsHeld'
  BY VoucherAssumption DEF LockIsHeld
<1>3. OwnRowsFit'
  <2> SUFFICES ASSUME NEW d \in Claimer, claimer'[d].rows > 0
               PROVE  claims'[claimer'[d].holder] + claimer'[d].rows <= cap'
    BY DEF OwnRowsFit
  <2>1. d # c /\ claimer'[d] = claimer[d]
    OBVIOUS
  <2>2. rowlock = d
    BY <2>1 DEF LockIsHeld
  <2>3. claimer[d].holder \in Holder /\ claims'[claimer[d].holder] <= claims[claimer[d].holder]
    BY <2>1, <2>2
  <2> QED
    BY <2>1, <2>3, VoucherAssumption DEF OwnRowsFit
<1> QED
  BY <1>1, <1>2, <1>3

(* One step per statement of a transaction, and the surroundings.          *)
LEMMA VouchersStep == VouchersInv /\ [VouchersNext]_voucherVars => VouchersInv'
<1> SUFFICES ASSUME VouchersInv, [VouchersNext]_voucherVars PROVE VouchersInv'
  OBVIOUS
<1> USE DEF VouchersInv, VouchersTypeOK, LockIsHeld, OwnRowsFit
<1>1. ASSUME NEW c \in Claimer, NEW r \in Holder, InsertsClaim(c, r) PROVE VouchersInv'
  <2>1. /\ claimer' \in [Claimer -> [step : {"none", "trigger", "count", "inserted"},
                                      holder : Holder, rows : Nat]]
        /\ claimer'[c].rows = 0 /\ claimer'[c].step = "trigger"
        /\ \A d \in Claimer \ {c} : claimer'[d] = claimer[d]
    BY <1>1 DEF InsertsClaim
  <2> QED BY <1>1, <2>1, VoucherAssumption DEF InsertsClaim
<1>2. ASSUME NEW c \in Claimer, InsertsMore(c) PROVE VouchersInv'
  BY <1>2, VoucherAssumption DEF InsertsMore, Steps
<1>3. ASSUME NEW c \in Claimer, LocksOffer(c) PROVE VouchersInv'
  BY <1>3, VoucherAssumption DEF LocksOffer, Steps
<1>4. ASSUME NEW c \in Claimer, CountsClaims(c) PROVE VouchersInv'
  <2>1. CASE claims[claimer[c].holder] + claimer[c].rows >= cap
    BY <1>4, <2>1, ClaimEndsInv DEF CountsClaims
  <2>2. CASE ~(claims[claimer[c].holder] + claimer[c].rows >= cap)
    BY <1>4, <2>2, VoucherAssumption DEF CountsClaims
  <2> QED BY <2>1, <2>2
<1>5. ASSUME NEW c \in Claimer, CommitsClaims(c) PROVE VouchersInv'
  <2>1. rowlock = c
    BY <1>5 DEF CommitsClaims
  <2>2. claims' \in [Holder -> Nat]
    BY <1>5 DEF CommitsClaims
  <2>3. \A h \in Holder : claims'[h] <= claims[h] \/ (rowlock = c /\ claims'[h] <= cap)
    BY <1>5, <2>1, VoucherAssumption DEF CommitsClaims
  <2> QED BY <1>5, <2>2, <2>3, ClaimEndsInv DEF CommitsClaims
<1>6. ASSUME NEW c \in Claimer, RollsBackClaims(c) PROVE VouchersInv'
  BY <1>6, ClaimEndsInv DEF RollsBackClaims
<1>7. ASSUME NEW r \in Holder, GivesUpClaim(r) PROVE VouchersInv'
  BY <1>7, VoucherAssumption DEF GivesUpClaim
<1>8. ASSUME NEW n \in Caps, Recaps(n) PROVE VouchersInv'
  BY <1>8, VoucherAssumption DEF Recaps
<1>9. CASE UNCHANGED voucherVars
  BY <1>9 DEF voucherVars
<1> QED
  BY <1>1, <1>2, <1>3, <1>4, <1>5, <1>6, <1>7, <1>8, <1>9 DEF VouchersNext

(* The lock, the counts and the rows stay as they must be.                 *)
THEOREM VouchersInvariant == VouchersSpec => []VouchersInv
  BY VouchersInitInv, VouchersStep, PTL DEF VouchersSpec

(* A reader's claims grow only within the cap of that moment, whatever     *)
(* sessions claim, insert several rows, or change the cap at the same      *)
(* time (the trigger of migration 0012).                                   *)
THEOREM CapHoldsForAll == VouchersSpec => CapHolds
<1> DEFINE Grows == \A r \in Holder : claims'[r] > claims[r] => claims'[r] <= cap'
<1>1. VouchersInv /\ [VouchersNext]_voucherVars => [Grows]_voucherVars
  <2> SUFFICES ASSUME VouchersInv, VouchersNext PROVE Grows
    OBVIOUS
  <2> USE DEF VouchersInv, VouchersTypeOK
  <2>1. ASSUME NEW c \in Claimer, CommitsClaims(c) PROVE Grows
    BY <2>1, VoucherAssumption DEF CommitsClaims, OwnRowsFit
  <2>2. ASSUME NEW r \in Holder, GivesUpClaim(r) PROVE Grows
    BY <2>2 DEF GivesUpClaim
  <2>3. ASSUME UNCHANGED claims PROVE Grows
    BY <2>3
  <2> QED
    BY <2>1, <2>2, <2>3 DEF VouchersNext, InsertsClaim, InsertsMore, LocksOffer,
       CountsClaims, RollsBackClaims, Recaps
<1> QED
  BY <1>1, VouchersInvariant, PTL DEF VouchersSpec, CapHolds
=============================================================================
