----------------------------- MODULE Provisioning -----------------------------
(* site:create and site:migrate --all (now_db.provisioning).  A command    *)
(* walks through steps that commit one at a time in three places: the city *)
(* database, the shared platform database and the working tree.  It can    *)
(* die after any of them and be run again, from this release's checkout or *)
(* another's, next to other commands and next to editors who tune a site.  *)
EXTENDS Naturals, FiniteSets

CONSTANTS
    Site, Type,
    Command,      \* commands running at a time
    Seeds,        \* the seed directories of the checkouts they run from
    Base,         \* types whose policy the baseline migration inserts
    Policy,       \* policies: what a type goes with and what it competes with
    Unset

\* One seed directory: its `type` terms, the policies of type_relations.json,
\* its `format` terms and what the decay file lists.
Strict == [likes |-> {}, rivals |-> {}]

ASSUME SeedAssumption ==
    /\ Base \subseteq Type
    /\ Policy \subseteq [likes : SUBSET Type, rivals : SUBSET Type]
    /\ Strict \in Policy /\ Unset \notin Policy \cup Site
    /\ \A sd \in Seeds :
         /\ sd.types \subseteq Type
         /\ \A t \in DOMAIN sd.policy : sd.policy[t] \in Policy

VARIABLES
    vocabulary,  \* `type` terms of the platform database
    city,        \* each city database: "none", "empty" or "head"
    policy,      \* its engine.type_relations
    own,         \* history: (site, type) pairs whose policy an editor made
    partitioned, \* it has the partitions of the days ahead
    registry,    \* engine.sites: status, and the decay keys of ranking_weights
    scaffolded,  \* sites whose directories exist
    command      \* for each command, its next step and its locals

provisioningVars == <<vocabulary, city, policy, own, partitioned, registry, scaffolded, command>>

NoCommand == [kind |-> "none"]
NoRow == [status |-> "none", decay |-> "none", confidence |-> "none"]

\* load_taxonomy_seed: what makes a directory refused before any write.
ValidSeed(sd) ==
    /\ sd.types # {}
    /\ DOMAIN sd.policy \subseteq sd.types
    /\ \A t \in DOMAIN sd.policy :
         LET p == sd.policy[t] IN
         /\ p.likes \cup p.rivals \subseteq sd.types \ {t}
         /\ p.likes \cap p.rivals = {}
    /\ sd.decays = sd.formats /\ sd.formats # {}

ProvisioningInit ==
    /\ vocabulary = {}
    /\ city = [s \in Site |-> "none"]
    /\ policy = [s \in Site |-> [t \in Type |-> Unset]]
    /\ own = {}
    /\ partitioned = {}
    /\ registry = [s \in Site |-> NoRow]
    /\ scaffolded = {}
    /\ command = [c \in Command |-> NoCommand]

-----------------------------------------------------------------------------
\* mutant: the city is registered before it is seeded
FollowingEarly(kind, step) ==
    CASE step = "database" -> "migrate"
      [] step = "migrate"  -> IF kind = "create" THEN "platform" ELSE "city"
      [] step = "platform" -> IF kind = "create" THEN "register" ELSE "migrate"
      [] step = "register" -> "city"
      [] step = "city"       -> "partitions"
      [] step = "partitions" -> IF kind = "create" THEN "scaffold" ELSE "decay"
      [] OTHER -> "end"

\* The step that follows `step`; a migration takes the next site after "decay".
Following(kind, step) ==
    CASE kind = "create" /\ step = "database" -> "migrate"
      [] step = "migrate"  -> IF kind = "create" THEN "platform" ELSE "city"
      [] step = "platform" -> IF kind = "create" THEN "city" ELSE "migrate"
      [] step = "city"       -> "partitions"
      [] step = "partitions" -> IF kind = "create" THEN "register" ELSE "decay"
      [] step = "register"   -> "scaffold"
      [] step = "decay"      -> "confidence"
      [] OTHER -> "end"

Stands(c, step) == command[c].kind # "none" /\ command[c].step = step
Done(c) == command' = [command EXCEPT ![c] = NoCommand]
Advances(c) == command' = [command EXCEPT ![c].step = Following(command[c].kind, @)]

CreateStarts(c, s, sd) ==
    /\ command[c].kind = "none"
    /\ ValidSeed(sd)
    /\ command' = [command EXCEPT ![c] =
                     [kind |-> "create", step |-> "database", site |-> s, seed |-> sd]]
    /\ UNCHANGED <<vocabulary, city, policy, own, partitioned, registry, scaffolded>>

\* The registry is read once, disabled sites left out, before anything else.
MigrateStarts(c, sd) ==
    /\ command[c].kind = "none"
    /\ ValidSeed(sd)
    /\ LET listed == {s \in Site : registry[s].status = "active"} IN
       command' = [command EXCEPT ![c] =
                     [kind |-> "migrate", step |-> "platform", seed |-> sd,
                      site |-> Unset, left |-> listed, listed |-> listed]]
    /\ UNCHANGED <<vocabulary, city, policy, own, partitioned, registry, scaffolded>>

TakesSite(c, s) ==
    /\ command[c].kind = "migrate" /\ command[c].step \in {"migrate", "end"}
    /\ command[c].site = Unset
    /\ s \in command[c].left
    /\ command' = [command EXCEPT ![c].site = s, ![c].left = @ \ {s}, ![c].step = "migrate"]
    /\ UNCHANGED <<vocabulary, city, policy, own, partitioned, registry, scaffolded>>

EnsuresDatabase(c) ==
    /\ Stands(c, "database")
    /\ city' = [city EXCEPT ![command[c].site] = IF @ = "none" THEN "empty" ELSE @]
    /\ Advances(c)
    /\ UNCHANGED <<vocabulary, policy, own, partitioned, registry, scaffolded>>

\* The baseline migration comes with the policies of its day.
Migrates(c) ==
    /\ Stands(c, "migrate") /\ command[c].site # Unset
    /\ LET s == command[c].site IN
       /\ city' = [city EXCEPT ![s] = "head"]
       /\ policy' = IF city[s] = "empty"
                    THEN [policy EXCEPT ![s] = [t \in Type |-> IF t \in Base THEN Strict ELSE Unset]]
                    ELSE policy
    /\ Advances(c)
    /\ UNCHANGED <<vocabulary, own, partitioned, registry, scaffolded>>

\* Upserts the terms and deletes none, in one transaction.
SeedsPlatform(c) ==
    /\ Stands(c, "platform")
    /\ vocabulary' = vocabulary \cup command[c].seed.types
    /\ Advances(c)
    /\ UNCHANGED <<city, policy, own, partitioned, registry, scaffolded>>

\* mutant: a type without an entry in the file is left for the editors
BackfilledListed(s, sd) ==
    [t \in Type |-> IF t \in vocabulary \cap DOMAIN sd.policy /\ policy[s][t] = Unset
                    THEN sd.policy[t] ELSE policy[s][t]]

Backfilled(s, sd) ==
    [t \in Type |-> IF t \in vocabulary /\ policy[s][t] = Unset
                    THEN IF t \in DOMAIN sd.policy THEN sd.policy[t] ELSE Strict
                    ELSE policy[s][t]]

Named(row) == UNION {row[t].likes \cup row[t].rivals : t \in {u \in Type : row[u] # Unset}}

\* The transaction is rolled back and the command ends when a row, whoever
\* made it, names a type outside the vocabulary.
SeedsCity(c) ==
    /\ Stands(c, "city")
    /\ LET s == command[c].site
           row == Backfilled(s, command[c].seed)
       IN  IF Named(row) \subseteq vocabulary
           THEN policy' = [policy EXCEPT ![s] = row] /\ Advances(c)
           ELSE UNCHANGED policy /\ Done(c)
    /\ UNCHANGED <<vocabulary, city, own, partitioned, registry, scaffolded>>

Partitions(c) ==
    /\ Stands(c, "partitions")
    /\ partitioned' = partitioned \cup {command[c].site}
    /\ Advances(c)
    /\ UNCHANGED <<vocabulary, city, policy, own, registry, scaffolded>>

\* mutant: the decay object is written whenever the command runs
WithFreshDecay(row) == [row EXCEPT !.decay = "seeded"]

\* Each of the two is written where it is missing, the second inside whatever
\* decay object is there.
WithDecay(row) == [row EXCEPT !.decay = IF @ = "none" THEN "seeded" ELSE @]
WithConfidence(row) == [row EXCEPT !.confidence = IF @ = "none" THEN "seeded" ELSE @]

EntersRegistry(c) ==
    /\ Stands(c, "register")
    /\ registry' = [registry EXCEPT ![command[c].site] =
                     WithConfidence(WithDecay([@ EXCEPT !.status = "active"]))]
    /\ Advances(c)
    /\ UNCHANGED <<vocabulary, city, policy, own, partitioned, scaffolded>>

DecaysSite(c) ==
    /\ Stands(c, "decay")
    /\ registry' = [registry EXCEPT ![command[c].site] = WithDecay(@)]
    /\ Advances(c)
    /\ UNCHANGED <<vocabulary, city, policy, own, partitioned, scaffolded>>

ConfidesSite(c) ==
    /\ Stands(c, "confidence")
    /\ registry' = [registry EXCEPT ![command[c].site] = WithConfidence(@)]
    /\ command' = [command EXCEPT ![c].site = Unset, ![c].step = "end"]
    /\ UNCHANGED <<vocabulary, city, policy, own, partitioned, scaffolded>>

Scaffolds(c) ==
    /\ Stands(c, "scaffold")
    /\ scaffolded' = scaffolded \cup {command[c].site}
    /\ Done(c)
    /\ UNCHANGED <<vocabulary, city, policy, own, partitioned, registry>>

MigrateEnds(c) ==
    /\ command[c].kind = "migrate" /\ command[c].step \in {"migrate", "end"}
    /\ command[c].site = Unset /\ command[c].left = {}
    /\ Done(c)
    /\ UNCHANGED <<vocabulary, city, policy, own, partitioned, registry, scaffolded>>

\* A statement fails, two CREATE DATABASE meet, or somebody presses Ctrl-C.
Breaks(c) ==
    /\ command[c].kind # "none"
    /\ Done(c)
    /\ UNCHANGED <<vocabulary, city, policy, own, partitioned, registry, scaffolded>>

-----------------------------------------------------------------------------
(* What editors and operators do to a site that exists.                    *)

Overrides(s, t, p) ==
    /\ city[s] = "head" /\ policy[s][t] # Unset
    /\ policy' = [policy EXCEPT ![s][t] = p]
    /\ own' = own \cup {<<s, t>>}
    /\ UNCHANGED <<vocabulary, city, partitioned, registry, scaffolded, command>>

Tunes(s) ==
    /\ registry[s].status # "none"
    /\ \E confidence \in {"none", "tuned"} :
         registry' = [registry EXCEPT ![s].decay = "tuned", ![s].confidence = confidence]
    /\ UNCHANGED <<vocabulary, city, policy, own, partitioned, scaffolded, command>>

Disables(s) ==
    /\ registry[s].status = "active"
    /\ registry' = [registry EXCEPT ![s].status = "disabled"]
    /\ UNCHANGED <<vocabulary, city, policy, own, partitioned, scaffolded, command>>

ProvisioningNext ==
    \/ \E c \in Command :
         \/ \E sd \in Seeds : \/ \E s \in Site : CreateStarts(c, s, sd)
                              \/ MigrateStarts(c, sd)
         \/ \E s \in Site : TakesSite(c, s)
         \/ EnsuresDatabase(c) \/ Migrates(c) \/ SeedsPlatform(c) \/ SeedsCity(c)
         \/ Partitions(c) \/ EntersRegistry(c) \/ DecaysSite(c) \/ ConfidesSite(c)
         \/ Scaffolds(c)
         \/ MigrateEnds(c) \/ Breaks(c)
    \/ \E s \in Site : \/ \E t \in Type, p \in Policy : Overrides(s, t, p)
                       \/ Tunes(s) \/ Disables(s)

ProvisioningSpec == ProvisioningInit /\ [][ProvisioningNext]_provisioningVars

-----------------------------------------------------------------------------
\* Types of the three places and of the commands in flight.
ProvisioningTypeOK ==
    /\ vocabulary \subseteq Type
    /\ city \in [Site -> {"none", "empty", "head"}]
    /\ \A s \in Site, t \in Type : policy[s][t] = Unset \/ policy[s][t] \in Policy
    /\ own \subseteq Site \X Type
    /\ partitioned \subseteq Site /\ scaffolded \subseteq Site
    /\ registry \in [Site -> [status : {"none", "active", "disabled"},
                              decay : {"none", "seeded", "tuned"},
                              confidence : {"none", "seeded", "tuned"}]]
    /\ \A c \in Command : command[c] = NoCommand \/ command[c].seed \in Seeds

\* A site the registry serves can be served: its database is migrated, it has
\* the partitions its readers' events go to and a decay policy, and a policy for
\* every type of at least one release, wherever the commands that made it died.
ServedIsProvisioned ==
    \A s \in Site : registry[s].status # "none" =>
        /\ city[s] = "head" /\ s \in partitioned /\ registry[s].decay # "none"
        /\ \E sd \in Seeds : \A t \in sd.types : policy[s][t] # Unset

\* What an editor decided for a site is never undone by running a command
\* again, from any checkout: neither a type's policy nor a tuned decay.
TuningSurvives ==
    [][command # command' =>
          /\ \A st \in own : policy'[st[1]][st[2]] = policy[st[1]][st[2]]
          /\ \A s \in Site : registry[s].decay = "tuned" => registry'[s].decay = "tuned"
          /\ \A s \in Site : registry[s].confidence = "tuned" => registry'[s].confidence = "tuned"]_provisioningVars

\* A migration that comes to its end has gone through every site it listed:
\* each has a policy for every type the release brings, the types without an
\* entry in its file included, whatever other commands and editors did meanwhile.
MigrateCovers ==
    \A c \in Command :
        command[c].kind = "migrate" /\ command[c].step = "end" /\ command[c].left = {} =>
            \A s \in command[c].listed, t \in command[c].seed.types : policy[s][t] # Unset
=============================================================================
