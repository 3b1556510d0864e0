--------------------------- MODULE ReaderAccounts ---------------------------
(* One address of the reader accounts: registration, sign-in with lockout, *)
(* and the single-use links behind verification and password reset.  Every *)
(* request is a sequence of statements, each its own transaction, so that  *)
(* the requests of one person, of several tabs, or of somebody else who    *)
(* typed the same address interleave between them, and a request may stop  *)
(* after any of them.                                                      *)
EXTENDS Naturals, FiniteSets, FiniteSetsExt

CONSTANTS
    Request,      \* requests the site serves at a time
    MaxAttempts,  \* DEFAULT_READER_LOCKOUT.maxAttempts
    MaxTokens,    \* bound: links ever issued
    MaxFailures   \* bound: login_attempts

ASSUME ReaderAssumption ==
    /\ IsFiniteSet(Request)
    /\ MaxAttempts \in Nat \ {0}
    /\ MaxTokens \in Nat /\ MaxFailures \in Nat

VARIABLES
    reader,    \* the row of engine.identities: "none", "active", or "closed" (suspended, deleted)
    token,     \* engine.identity_tokens, by order of issue
    held,      \* tokens before expires_at whose secret reached somebody
    req,       \* for each request, the statement it runs next and its locals
    spent,     \* history: how often each token was redeemed
    wrong      \* history: failures since the row was cleared or its lock lapsed

accountVars == <<reader, token, held, req, spent, wrong>>

Kind == {"verify_email", "reset_password"}
Token == 1 .. MaxTokens

Idle == [at |-> "idle", kind |-> "verify_email", token |-> 0, seen |-> 0,
         page |-> FALSE]
NoReader == [status |-> "none", verified |-> FALSE, attempts |-> 0, locked |-> FALSE]

Live(k) == {t \in Token : token[t] = [kind |-> k, state |-> "live"]}
At(step) == {r \in Request : req[r].at = step}
Issued == {t \in Token : token[t].state # "unissued"}

AccountInit ==
    /\ reader = NoReader
    /\ token = [t \in Token |-> [kind |-> "verify_email", state |-> "unissued"]]
    /\ held = {}
    /\ req = [r \in Request |-> Idle]
    /\ spent = [t \in Token |-> 0]
    /\ wrong = 0

Goes(r, step) == req' = [req EXCEPT ![r].at = step]
Ends(r) == req' = [req EXCEPT ![r] = Idle]

-----------------------------------------------------------------------------
(* Registration.  findByEmail comes before the hashing and the INSERT; the *)
(* loser of a race reads the winner's row and goes on as if it had won.    *)

Registers(r) ==
    /\ req[r].at = "idle"
    /\ reader.status = "none"
    /\ Goes(r, "insert")
    /\ UNCHANGED <<reader, token, held, spent, wrong>>

Inserts(r) ==
    /\ req[r].at = "insert"
    /\ reader' = IF reader.status = "none"
                 THEN [NoReader EXCEPT !.status = "active"]
                 ELSE reader
    /\ req' = [req EXCEPT ![r] = [Idle EXCEPT !.at = "drop"]]
    /\ UNCHANGED <<token, held, spent, wrong>>

-----------------------------------------------------------------------------
(* Links.  Issuing one deletes the person's tokens of that kind and then   *)
(* inserts the new one.                                                    *)

AsksForLink(r, k) ==
    /\ req[r].at = "idle"
    /\ reader.status = "active"
    /\ k = "verify_email" => ~reader.verified
    /\ req' = [req EXCEPT ![r].at = "drop", ![r].kind = k]
    /\ UNCHANGED <<reader, token, held, spent, wrong>>

Without(k) ==
    [t \in Token |-> IF token[t].kind = k /\ token[t].state \in {"live", "used"}
                     THEN [kind |-> k, state |-> "gone"] ELSE token[t]]

\* mutant: only the links already used are swept
DropsUsedLinks(r) ==
    /\ req[r].at = "drop"
    /\ token' = [t \in Token |-> IF token[t].kind = req[r].kind /\ token[t].state = "used"
                                 THEN [token[t] EXCEPT !.state = "gone"] ELSE token[t]]
    /\ Goes(r, "create")
    /\ UNCHANGED <<reader, held, spent, wrong>>

DropsOldLinks(r) ==
    /\ req[r].at = "drop"
    /\ token' = Without(req[r].kind)
    /\ Goes(r, "create")
    /\ UNCHANGED <<reader, held, spent, wrong>>

\* The mail may fail, which is logged and otherwise ignored; the link that
\* replaces one spent on a weak password goes back to the page itself.
CreatesLink(r) ==
    /\ req[r].at = "create"
    /\ Issued # Token
    /\ LET t == Cardinality(Issued) + 1 IN
       /\ token' = [token EXCEPT ![t] = [kind |-> req[r].kind, state |-> "live"]]
       /\ \E sent \in {req[r].page, TRUE} :
            held' = IF sent THEN held \cup {t} ELSE held
    /\ Ends(r)
    /\ UNCHANGED <<reader, spent, wrong>>

\* mutant: consumed_at is not looked at
FollowsAnyLink(r, t) ==
    /\ req[r].at = "idle"
    /\ t \in held
    /\ token[t].state \in {"live", "used"}
    /\ req' = [req EXCEPT ![r].at = "consume", ![r].kind = token[t].kind, ![r].token = t]
    /\ UNCHANGED <<reader, token, held, spent, wrong>>

FollowsLink(r, t) ==
    /\ req[r].at = "idle"
    /\ t \in held
    /\ token[t].state = "live"
    /\ req' = [req EXCEPT ![r].at = "consume", ![r].kind = token[t].kind, ![r].token = t]
    /\ UNCHANGED <<reader, token, held, spent, wrong>>

\* The UPDATE is guarded by consumed_at IS NULL; how many rows it changed is
\* not looked at, and the request goes on.
Consumes(r) ==
    /\ req[r].at = "consume"
    /\ LET t == req[r].token IN
       /\ token' = IF token[t].state = "live"
                   THEN [token EXCEPT ![t].state = "used"] ELSE token
       /\ spent' = [spent EXCEPT ![t] = @ + 1]
    /\ Goes(r, IF req[r].kind = "verify_email" THEN "mark" ELSE "reset")
    /\ UNCHANGED <<reader, held, wrong>>

-----------------------------------------------------------------------------
(* Completing a reset: four statements, after the password was accepted.   *)

\* mutant: the request is left at a step nothing takes up
RefusesForGood(r) ==
    /\ req[r].at = "reset"
    /\ Goes(r, "weak")
    /\ UNCHANGED <<reader, token, held, spent, wrong>>

RefusesPassword(r) ==
    /\ req[r].at = "reset"
    /\ req' = [req EXCEPT ![r].at = "drop", ![r].page = TRUE]
    /\ UNCHANGED <<reader, token, held, spent, wrong>>

SetsPassword(r) ==
    /\ req[r].at = "reset"
    /\ Goes(r, "clear")
    /\ UNCHANGED <<reader, token, held, spent, wrong>>

Cleared == [reader EXCEPT !.attempts = 0, !.locked = FALSE]

ClearsAfterReset(r) ==
    /\ req[r].at = "clear"
    /\ reader' = Cleared
    /\ wrong' = 0
    /\ Goes(r, "mark")
    /\ UNCHANGED <<token, held, spent>>

MarksVerified(r) ==
    /\ req[r].at = "mark"
    /\ reader' = [reader EXCEPT !.verified = TRUE]
    /\ IF req[r].kind = "verify_email" THEN Ends(r) ELSE Goes(r, "purge")
    /\ UNCHANGED <<token, held, spent, wrong>>

PurgesLinks(r) ==
    /\ req[r].at = "purge"
    /\ token' = Without("reset_password")
    /\ Ends(r)
    /\ UNCHANGED <<reader, held, spent, wrong>>

-----------------------------------------------------------------------------
(* Sign-in: the row is read, the password hashed for a while, and then the *)
(* outcome written from what was read.                                     *)

SignsIn(r) ==
    /\ req[r].at = "idle"
    /\ reader.status = "active"
    /\ ~reader.locked
    /\ reader.attempts + Cardinality(At("fail")) < MaxFailures
    /\ \/ Goes(r, "pass")
       \/ req' = [req EXCEPT ![r].at = "fail", ![r].seen = reader.attempts]
    /\ UNCHANGED <<reader, token, held, spent, wrong>>

\* mutant: the counter is written from what was read
FailsByReadModifyWrite(r) ==
    /\ req[r].at = "fail"
    /\ reader' = [reader EXCEPT !.attempts = req[r].seen + 1,
                                !.locked = req[r].seen + 1 >= MaxAttempts]
    /\ wrong' = wrong + 1
    /\ Ends(r)
    /\ UNCHANGED <<token, held, spent>>

Fails(r) ==
    /\ req[r].at = "fail"
    /\ reader' = [reader EXCEPT !.attempts = @ + 1,
                                !.locked = req[r].seen + 1 >= MaxAttempts]
    /\ wrong' = wrong + 1
    /\ Ends(r)
    /\ UNCHANGED <<token, held, spent>>

Passes(r) ==
    /\ req[r].at = "pass"
    /\ reader' = Cleared
    /\ wrong' = 0
    /\ Ends(r)
    /\ UNCHANGED <<token, held, spent>>

-----------------------------------------------------------------------------
(* The surroundings: time, operators who suspend or delete an account, and *)
(* requests that stop.                                                     *)

LockLapses ==
    /\ reader.locked
    /\ reader' = [reader EXCEPT !.locked = FALSE]
    /\ wrong' = 0
    /\ UNCHANGED <<token, held, req, spent>>

Outdates(t) ==
    /\ t \in held
    /\ held' = held \ {t}
    /\ UNCHANGED <<reader, token, req, spent, wrong>>

Dies(r) ==
    /\ req[r].at # "idle"
    /\ Ends(r)
    /\ UNCHANGED <<reader, token, held, spent, wrong>>

Closes ==
    /\ reader.status = "active"
    /\ reader' = [reader EXCEPT !.status = "closed"]
    /\ UNCHANGED <<token, held, req, spent, wrong>>

AccountNext ==
    \/ \E r \in Request :
         \/ Registers(r) \/ Inserts(r)
         \/ \E k \in Kind : AsksForLink(r, k)
         \/ DropsOldLinks(r) \/ CreatesLink(r)
         \/ \E t \in Token : FollowsLink(r, t)
         \/ Consumes(r)
         \/ RefusesPassword(r) \/ SetsPassword(r) \/ ClearsAfterReset(r)
         \/ MarksVerified(r) \/ PurgesLinks(r)
         \/ SignsIn(r) \/ Fails(r) \/ Passes(r)
         \/ Dies(r)
    \/ \E t \in Token : Outdates(t)
    \/ LockLapses
    \/ Closes

AccountSpec == AccountInit /\ [][AccountNext]_accountVars

-----------------------------------------------------------------------------
\* Type correctness of the account, its links and the requests in flight.
AccountTypeOK ==
    /\ reader \in [status : {"none", "active", "closed"}, verified : BOOLEAN,
                   attempts : Nat, locked : BOOLEAN]
    /\ token \in [Token -> [kind : Kind, state : {"unissued", "live", "used", "gone"}]]
    /\ held \subseteq Token
    /\ req \in [Request -> [at : {"idle", "insert", "drop", "create", "consume", "mark",
                                  "reset", "clear", "purge", "pass", "fail"},
                            kind : Kind, token : 0 .. MaxTokens,
                            seen : Nat, page : BOOLEAN]]
    /\ spent \in [Token -> Nat]
    /\ wrong \in Nat

\* Requesting a new link invalidates the old one (reader.ts, issueEmailToken)
\* in two statements: requests that overlap can each leave a link, but there
\* are never more live links of a kind than requests served at a time.
LinksBounded ==
    \A k \in Kind :
        Cardinality(Live(k)) + Cardinality({r \in At("create") : req[r].kind = k})
            <= Cardinality(Request)

\* A link is redeemed by the requests that found it unused before the first of
\* them marked it, and by nobody after: with one request at a time, once.
SpentBounded ==
    \A t \in Token :
        spent[t] + Cardinality({r \in At("consume") : req[r].token = t})
            <= Cardinality(Request)

\* The lockout counts every failure, but a failure that read the counter before
\* the limit was reached lifts a lock set since.  However requests overlap, the
\* failures let in before a lapse or a success stay below this bound, which is
\* the limit itself when requests come one at a time.
GuessesBounded ==
    LET N == Cardinality(Request) IN
    wrong <= MaxAttempts - 1 + (N * (N + 1)) \div 2 + N - 1
=============================================================================
