------------------------- MODULE ProvisioningProofs -------------------------
(***************************************************************************)
(* Provisioning proved for every number of sites, of seed directories and  *)
(* of commands that run, die and are run again among each other: what is   *)
(* served is provisioned, a migration covers what it listed, and no        *)
(* command undoes an editor's tuning.                                      *)
(***************************************************************************)
EXTENDS Provisioning, TLAPS

(* The commands in flight.                                                 *)
CreateCommand ==
  [kind : {"create"}, step : {"database", "migrate", "platform", "city", "partitions",
                              "register", "scaffold"},
   site : Site, seed : Seeds]

MigrateCommand ==
  [kind : {"migrate"}, step : {"platform", "migrate", "city", "partitions", "decay",
                               "confidence", "end"},
   seed : Seeds, site : Site \cup {Unset}, left : SUBSET Site, listed : SUBSET Site]

(* Types of the three places and of the commands.                          *)
PlacesTypeOK ==
  /\ vocabulary \subseteq Type
  /\ city \in [Site -> {"none", "empty", "head"}]
  /\ policy \in [Site -> [Type -> Policy \cup {Unset}]]
  /\ own \subseteq Site \X Type
  /\ partitioned \subseteq Site /\ scaffolded \subseteq Site
  /\ registry \in [Site -> [status : {"none", "active", "disabled"},
                            decay : {"none", "seeded", "tuned"},
                            confidence : {"none", "seeded", "tuned"}]]
  /\ command \in [Command -> {NoCommand} \cup CreateCommand \cup MigrateCommand]

(* The site has a migrated database and a policy for every type of ts.     *)
Covered(s, ts) == city[s] = "head" /\ \A t \in ts : policy[s][t] # Unset

(* What a create command has done by the step it stands at, whoever ran    *)
(* beside it.                                                              *)
CreateStands(m) ==
  m.kind = "create" =>
    /\ m.step # "database" => city[m.site] # "none"
    /\ m.step \notin {"database", "migrate"} => city[m.site] = "head"
    /\ m.step \notin {"database", "migrate", "platform"} => m.seed.types \subseteq vocabulary
    /\ m.step \in {"partitions", "register", "scaffold"} => Covered(m.site, m.seed.types)
    /\ m.step \in {"register", "scaffold"} => m.site \in partitioned

(* What a migration has done: the sites it is through with are covered.    *)
MigrateStands(m) ==
  m.kind = "migrate" =>
    /\ m.left \subseteq m.listed
    /\ \A s \in m.listed : registry[s].status # "none"
    /\ m.step # "platform" => m.seed.types \subseteq vocabulary
    /\ m.step \in {"platform", "end"} => m.site = Unset
    /\ m.step \in {"city", "partitions", "decay", "confidence"} => m.site # Unset
    /\ m.site # Unset => m.site \in m.listed
    /\ m.step = "platform" => m.left = m.listed
    /\ \A s \in m.listed \ m.left :
         s # m.site \/ m.step \in {"partitions", "decay", "confidence", "end"}
           => Covered(s, m.seed.types)

(* An editor's policy is one that is there, in a city that is migrated.    *)
OwnIsSet == \A st \in own : city[st[1]] = "head" /\ policy[st[1]][st[2]] # Unset

ProvisioningInv ==
  /\ PlacesTypeOK
  /\ ServedIsProvisioned
  /\ OwnIsSet
  /\ \A c \in Command : CreateStands(command[c]) /\ MigrateStands(command[c])

(* What no step takes away.                                                *)
Grows ==
  /\ vocabulary \subseteq vocabulary'
  /\ \A s \in Site : city[s] # "none" => city'[s] # "none"
  /\ \A s \in Site : city[s] = "head" => city'[s] = "head"
  /\ \A s \in Site, t \in Type :
       city[s] = "head" /\ policy[s][t] # Unset => policy'[s][t] # Unset
  /\ partitioned \subseteq partitioned'
  /\ \A s \in Site : registry[s].status # "none" => registry'[s].status # "none"
  /\ \A s \in Site : registry[s].decay # "none" => registry'[s].decay # "none"

-----------------------------------------------------------------------------
(* Who stood somewhere and has not moved stands there still.               *)
LEMMA StandsStill ==
  ASSUME ProvisioningInv, Grows, NEW c \in Command, command'[c] = command[c]
  PROVE  CreateStands(command[c])' /\ MigrateStands(command[c])'
<1> DEFINE m == command[c]
<1>1. m \in {NoCommand} \cup CreateCommand \cup MigrateCommand
  BY DEF ProvisioningInv, PlacesTypeOK
<1>2. m.kind \in {"create", "migrate"} => m.seed.types \subseteq Type
  BY <1>1, SeedAssumption DEF NoCommand, CreateCommand, MigrateCommand
<1>3. CreateStands(m) /\ MigrateStands(m)
  BY DEF ProvisioningInv
<1>4. ASSUME NEW s \in Site, NEW ts \in SUBSET Type, Covered(s, ts) PROVE Covered(s, ts)'
  BY <1>4 DEF Covered, Grows
<1>5. CASE m.kind = "create"
  <2>1. m \in CreateCommand
    BY <1>1, <1>5 DEF NoCommand, MigrateCommand
  <2>2. m.site \in Site
    BY <2>1 DEF CreateCommand
  <2> QED BY <1>2, <1>3, <1>4, <1>5, <2>2 DEF CreateStands, MigrateStands, Grows
<1>6. CASE m.kind = "migrate"
  <2>1. m \in MigrateCommand
    BY <1>1, <1>6 DEF NoCommand, CreateCommand
  <2>2. m.listed \subseteq Site /\ m.left \subseteq Site
    BY <2>1 DEF MigrateCommand
  <2> QED BY <1>2, <1>3, <1>4, <1>6, <2>2 DEF CreateStands, MigrateStands, Grows
<1>7. CASE m.kind \notin {"create", "migrate"}
  BY <1>7 DEF CreateStands, MigrateStands
<1> QED BY <1>5, <1>6, <1>7

(* A step that takes nothing away keeps the invariant, when the commands   *)
(* it moves stand where they should and a site it serves is provisioned.   *)
LEMMA GrowthKeepsInvariant ==
  ASSUME ProvisioningInv, Grows, PlacesTypeOK',
         \A s \in Site : registry'[s].status # "none" /\ registry[s].status = "none" =>
           /\ city'[s] = "head" /\ s \in partitioned' /\ registry'[s].decay # "none"
           /\ \E sd \in Seeds : \A t \in sd.types : policy'[s][t] # Unset,
         \A st \in own' : st \in own \/ (city'[st[1]] = "head" /\ policy'[st[1]][st[2]] # Unset),
         \A c \in Command : command'[c] # command[c] =>
           CreateStands(command[c])' /\ MigrateStands(command[c])'
  PROVE  ProvisioningInv'
<1>1. \A sd \in Seeds : sd.types \subseteq Type
  BY SeedAssumption
<1>2. ServedIsProvisioned'
  <2> SUFFICES ASSUME NEW s \in Site, registry'[s].status # "none"
               PROVE  /\ city'[s] = "head" /\ s \in partitioned' /\ registry'[s].decay # "none"
                      /\ \E sd \in Seeds : \A t \in sd.types : policy'[s][t] # Unset
    BY DEF ServedIsProvisioned
  <2>1. CASE registry[s].status # "none"
    <3>1. PICK sd \in Seeds : \A t \in sd.types : policy[s][t] # Unset
      BY <2>1 DEF ProvisioningInv, ServedIsProvisioned
    <3>2. city[s] = "head" /\ s \in partitioned /\ registry[s].decay # "none"
      BY <2>1 DEF ProvisioningInv, ServedIsProvisioned
    <3>3. \A t \in sd.types : policy'[s][t] # Unset
      BY <1>1, <3>1, <3>2 DEF Grows
    <3> QED BY <3>2, <3>3 DEF Grows
  <2> QED BY <2>1
<1>3. OwnIsSet'
  <2>1. \A st \in own : st[1] \in Site /\ st[2] \in Type
    BY DEF ProvisioningInv, PlacesTypeOK
  <2>2. \A st \in own : city[st[1]] = "head" /\ policy[st[1]][st[2]] # Unset
    BY DEF ProvisioningInv, OwnIsSet
  <2> QED BY <2>1, <2>2 DEF OwnIsSet, Grows
<1>4. \A c \in Command : CreateStands(command[c])' /\ MigrateStands(command[c])'
  BY StandsStill
<1> QED BY <1>2, <1>3, <1>4 DEF ProvisioningInv

-----------------------------------------------------------------------------
(* One lemma per kind of step.                                             *)

(* A command that starts.                                                  *)
LEMMA StartKeeps ==
  ASSUME ProvisioningInv, NEW c \in Command, NEW sd \in Seeds,
         \/ \E s \in Site : CreateStarts(c, s, sd)
         \/ MigrateStarts(c, sd)
  PROVE  ProvisioningInv'
<1> USE DEF ProvisioningInv, PlacesTypeOK
<1>1. UNCHANGED <<vocabulary, city, policy, own, partitioned, registry, scaffolded>>
  BY DEF CreateStarts, MigrateStarts
<1>2. Grows
  BY <1>1 DEF Grows
<1>3. CASE \E s \in Site : CreateStarts(c, s, sd)
  <2>1. PICK s \in Site : command' = [command EXCEPT ![c] =
                 [kind |-> "create", step |-> "database", site |-> s, seed |-> sd]]
    BY <1>3 DEF CreateStarts
  <2>2. command'[c] = [kind |-> "create", step |-> "database", site |-> s, seed |-> sd]
        /\ \A d \in Command : d # c => command'[d] = command[d]
    BY <2>1
  <2>3. command'[c] \in CreateCommand
    BY <2>2 DEF CreateCommand
  <2>4. PlacesTypeOK'
    BY <1>1, <2>1, <2>3
  <2>5. CreateStands(command[c])' /\ MigrateStands(command[c])'
    BY <2>2 DEF CreateStands, MigrateStands
  <2> QED BY <1>1, <1>2, <2>2, <2>4, <2>5, GrowthKeepsInvariant
<1>4. CASE MigrateStarts(c, sd)
  <2> DEFINE listed == {s \in Site : registry[s].status = "active"}
  <2>1. command' = [command EXCEPT ![c] =
                 [kind |-> "migrate", step |-> "platform", seed |-> sd,
                  site |-> Unset, left |-> listed, listed |-> listed]]
    BY <1>4 DEF MigrateStarts
  <2>2. command'[c] = [kind |-> "migrate", step |-> "platform", seed |-> sd,
                       site |-> Unset, left |-> listed, listed |-> listed]
        /\ \A d \in Command : d # c => command'[d] = command[d]
    BY <2>1
  <2>3. command'[c] \in MigrateCommand
    BY <2>2 DEF MigrateCommand
  <2>4. PlacesTypeOK'
    BY <1>1, <2>1, <2>3
  <2>5. CreateStands(command[c])' /\ MigrateStands(command[c])'
    BY <1>1, <2>2 DEF CreateStands, MigrateStands
  <2> QED BY <1>1, <1>2, <2>2, <2>4, <2>5, GrowthKeepsInvariant
<1> QED BY <1>3, <1>4

(* A command that ends, of itself or because it broke.                     *)
LEMMA EndKeeps ==
  ASSUME ProvisioningInv, NEW c \in Command, Done(c), Grows,
         UNCHANGED <<vocabulary, city, policy, own, partitioned, registry>>,
         scaffolded' \subseteq Site
  PROVE  ProvisioningInv'
<1>1. command'[c] = NoCommand /\ \A d \in Command : d # c => command'[d] = command[d]
  BY DEF Done, ProvisioningInv, PlacesTypeOK
<1>2. CreateStands(command[c])' /\ MigrateStands(command[c])'
  BY <1>1 DEF CreateStands, MigrateStands, NoCommand
<1>3. PlacesTypeOK'
  BY DEF Done, ProvisioningInv, PlacesTypeOK
<1> QED BY <1>1, <1>2, <1>3, GrowthKeepsInvariant

(* The command that stands at `step`, what it is and what it becomes.      *)
LEMMA AdvanceOf ==
  ASSUME PlacesTypeOK, NEW c \in Command, NEW step, Stands(c, step), Advances(c)
  PROVE  /\ command[c] \in CreateCommand \cup MigrateCommand
         /\ command' = [command EXCEPT ![c].step = Following(command[c].kind, step)]
         /\ \A d \in Command : d # c => command'[d] = command[d]
         /\ command'[c] = [command[c] EXCEPT !.step = Following(command[c].kind, step)]
<1>1. command[c] \in CreateCommand \cup MigrateCommand
  BY DEF PlacesTypeOK, Stands, NoCommand
<1>2. command' = [command EXCEPT ![c].step = Following(command[c].kind, step)]
  BY <1>1 DEF Advances, Stands, CreateCommand, MigrateCommand, PlacesTypeOK
<1> QED BY <1>1, <1>2 DEF PlacesTypeOK

(* The database of a new city is made.                                     *)
LEMMA EnsuresDatabaseKeeps ==
  ASSUME ProvisioningInv, NEW c \in Command, EnsuresDatabase(c)
  PROVE  ProvisioningInv'
<1>1. Stands(c, "database") /\ Advances(c)
      /\ city' = [city EXCEPT ![command[c].site] = IF @ = "none" THEN "empty" ELSE @]
      /\ UNCHANGED <<vocabulary, policy, own, partitioned, registry, scaffolded>>
  BY DEF EnsuresDatabase
<1>2. PlacesTypeOK
  BY DEF ProvisioningInv
<1>3. command[c] \in CreateCommand \cup MigrateCommand
  BY <1>1, <1>2, AdvanceOf
<1>4. command[c] \in CreateCommand /\ command[c].kind = "create"
  BY <1>1, <1>3 DEF Stands, CreateCommand, MigrateCommand
<1>5. Following(command[c].kind, "database") = "migrate"
  BY <1>4 DEF Following
<1>6. command'[c] = [command[c] EXCEPT !.step = "migrate"]
      /\ \A d \in Command : d # c => command'[d] = command[d]
  BY <1>1, <1>2, <1>5, AdvanceOf
<1>7. command'[c] \in CreateCommand
  BY <1>4, <1>6 DEF CreateCommand
<1>8. Grows
  BY <1>1, <1>2 DEF Grows, PlacesTypeOK
<1>9. PlacesTypeOK'
  BY <1>1, <1>2, <1>5, <1>7, AdvanceOf DEF PlacesTypeOK
<1>10. city'[command[c].site] # "none"
  BY <1>1, <1>2, <1>4 DEF PlacesTypeOK, CreateCommand
<1>11. CreateStands(command[c])' /\ MigrateStands(command[c])'
  BY <1>4, <1>6, <1>10 DEF CreateStands, MigrateStands, CreateCommand
<1> QED BY <1>1, <1>6, <1>8, <1>9, <1>11, GrowthKeepsInvariant

(* A city database is brought to the head of its migrations.               *)
LEMMA MigratesKeeps ==
  ASSUME ProvisioningInv, NEW c \in Command, Migrates(c)
  PROVE  ProvisioningInv'
<1> DEFINE s == command[c].site
<1>1. /\ Stands(c, "migrate") /\ Advances(c) /\ s # Unset
      /\ city' = [city EXCEPT ![s] = "head"]
      /\ policy' = IF city[s] = "empty"
                   THEN [policy EXCEPT ![s] = [t \in Type |-> IF t \in Base THEN Strict ELSE Unset]]
                   ELSE policy
      /\ UNCHANGED <<vocabulary, own, partitioned, registry, scaffolded>>
  BY DEF Migrates
<1>2. PlacesTypeOK /\ CreateStands(command[c]) /\ MigrateStands(command[c])
  BY DEF ProvisioningInv
<1>3. command[c] \in CreateCommand \cup MigrateCommand
  BY <1>1, <1>2, AdvanceOf
<1>4. s \in Site /\ command[c].step = "migrate"
  BY <1>1, <1>3 DEF Stands, CreateCommand, MigrateCommand
<1>5. policy' \in [Site -> [Type -> Policy \cup {Unset}]]
  BY <1>1, <1>2, <1>4, SeedAssumption DEF PlacesTypeOK
<1>6. Grows
  BY <1>1, <1>2, <1>4 DEF Grows, PlacesTypeOK
<1>7. city'[s] = "head" /\ city' \in [Site -> {"none", "empty", "head"}]
  BY <1>1, <1>2, <1>4 DEF PlacesTypeOK
<1>8. command'[c] = [command[c] EXCEPT !.step = Following(command[c].kind, "migrate")]
      /\ \A d \in Command : d # c => command'[d] = command[d]
  BY <1>1, <1>2, AdvanceOf
<1>9. CASE command[c].kind = "create"
  <2>1. command[c] \in CreateCommand
    BY <1>3, <1>9 DEF MigrateCommand
  <2>2. command'[c] = [command[c] EXCEPT !.step = "platform"]
    BY <1>8, <1>9 DEF Following
  <2>3. command'[c] \in CreateCommand
    BY <2>1, <2>2 DEF CreateCommand
  <2>4. PlacesTypeOK'
    BY <1>1, <1>2, <1>5, <1>7, <2>3, AdvanceOf, <1>8 DEF PlacesTypeOK
  <2>5. CreateStands(command[c])' /\ MigrateStands(command[c])'
    BY <1>7, <1>9, <2>1, <2>2 DEF CreateStands, MigrateStands, CreateCommand
  <2> QED BY <1>1, <1>6, <1>8, <2>4, <2>5, GrowthKeepsInvariant
<1>10. CASE command[c].kind = "migrate"
  <2>1. command[c] \in MigrateCommand
    BY <1>3, <1>10 DEF CreateCommand
  <2>2. command'[c] = [command[c] EXCEPT !.step = "city"]
    BY <1>8, <1>10 DEF Following
  <2>3. command'[c] \in MigrateCommand
    BY <2>1, <2>2 DEF MigrateCommand
  <2>4. PlacesTypeOK'
    BY <1>1, <1>2, <1>5, <1>7, <2>3, AdvanceOf, <1>8 DEF PlacesTypeOK
  <2>5. \A r \in command[c].listed \ command[c].left :
           r # s => Covered(r, command[c].seed.types)
    BY <1>2, <1>10, <1>4 DEF MigrateStands
  <2>6. command[c].seed.types \subseteq Type /\ command[c].listed \subseteq Site
    BY <2>1, SeedAssumption DEF MigrateCommand
  <2>7. \A r \in command[c].listed \ command[c].left :
           r # s => Covered(r, command[c].seed.types)'
    BY <1>6, <1>8, <2>2, <2>1, <2>5, <2>6 DEF Grows, Covered, MigrateCommand
  <2>8. CreateStands(command[c])' /\ MigrateStands(command[c])'
    BY <1>1, <1>2, <1>4, <1>10, <2>1, <2>2, <2>7 DEF CreateStands, MigrateStands, MigrateCommand
  <2> QED BY <1>1, <1>6, <1>8, <2>4, <2>8, GrowthKeepsInvariant
<1> QED BY <1>3, <1>9, <1>10 DEF CreateCommand, MigrateCommand

(* A step of a create command stands where its next one starts, and one of *)
(* a migration too.                                                        *)
LEMMA AdvanceKeeps ==
  ASSUME ProvisioningInv, NEW c \in Command, NEW step, Stands(c, step), Advances(c), Grows,
         UNCHANGED <<own, scaffolded>>,
         vocabulary' \subseteq Type, partitioned' \subseteq Site,
         city' \in [Site -> {"none", "empty", "head"}],
         policy' \in [Site -> [Type -> Policy \cup {Unset}]],
         registry' \in [Site -> [status : {"none", "active", "disabled"},
                                 decay : {"none", "seeded", "tuned"},
                                 confidence : {"none", "seeded", "tuned"}]],
         \A s \in Site : registry'[s].status # "none" /\ registry[s].status = "none" =>
           /\ city'[s] = "head" /\ s \in partitioned' /\ registry'[s].decay # "none"
           /\ \E sd \in Seeds : \A t \in sd.types : policy'[s][t] # Unset,
         Following(command[c].kind, step) \in
           IF command[c].kind = "create"
           THEN {"migrate", "platform", "city", "partitions", "register", "scaffold"}
           ELSE {"migrate", "city", "partitions", "decay", "confidence"},
         CreateStands(command[c])' /\ MigrateStands(command[c])'
  PROVE  ProvisioningInv'
<1>1. PlacesTypeOK
  BY DEF ProvisioningInv
<1>2. /\ command[c] \in CreateCommand \cup MigrateCommand
      /\ \A d \in Command : d # c => command'[d] = command[d]
      /\ command'[c] = [command[c] EXCEPT !.step = Following(command[c].kind, step)]
      /\ command' = [command EXCEPT ![c].step = Following(command[c].kind, step)]
  BY <1>1, AdvanceOf
<1> DEFINE next == Following(command[c].kind, step)
<1> HIDE DEF next
<1>3. command'[c] \in CreateCommand \cup MigrateCommand
  <2>1. CASE command[c].kind = "create"
    <3>1. command[c] \in CreateCommand
      BY <1>2, <2>1 DEF MigrateCommand
    <3>2. next \in {"migrate", "platform", "city", "partitions", "register", "scaffold"}
      BY <2>1 DEF next
    <3>3. command'[c] = [command[c] EXCEPT !.step = next]
      BY <1>2 DEF next
    <3> QED BY <3>1, <3>2, <3>3 DEF CreateCommand
  <2>2. CASE command[c].kind # "create"
    <3>1. command[c] \in MigrateCommand
      BY <1>2, <2>2 DEF CreateCommand
    <3>2. next \in {"migrate", "city", "partitions", "decay", "confidence"}
      BY <2>2 DEF next
    <3>3. command'[c] = [command[c] EXCEPT !.step = next]
      BY <1>2 DEF next
    <3> QED BY <3>1, <3>2, <3>3 DEF MigrateCommand
  <2> QED BY <2>1, <2>2
<1>4. command' \in [Command -> {NoCommand} \cup CreateCommand \cup MigrateCommand]
  BY <1>1, <1>2, <1>3 DEF PlacesTypeOK
<1>5. PlacesTypeOK'
  BY <1>1, <1>4 DEF PlacesTypeOK
<1> QED BY <1>2, <1>5, GrowthKeepsInvariant

(* What a command becomes when it advances.                                *)
LEMMA NextOf ==
  ASSUME ProvisioningInv, NEW c \in Command, NEW step, Stands(c, step), Advances(c)
  PROVE  /\ command[c] \in CreateCommand \cup MigrateCommand
         /\ command[c].step = step
         /\ CreateStands(command[c]) /\ MigrateStands(command[c])
         /\ command'[c] = [command[c] EXCEPT !.step = Following(command[c].kind, step)]
         /\ command[c].seed.types \subseteq Type
<1>1. PlacesTypeOK /\ CreateStands(command[c]) /\ MigrateStands(command[c])
  BY DEF ProvisioningInv
<1>2. /\ command[c] \in CreateCommand \cup MigrateCommand
      /\ command'[c] = [command[c] EXCEPT !.step = Following(command[c].kind, step)]
  BY <1>1, AdvanceOf
<1>3. command[c].seed.types \subseteq Type
  BY <1>2, SeedAssumption DEF CreateCommand, MigrateCommand
<1> QED BY <1>1, <1>2, <1>3 DEF Stands

(* The vocabulary of the platform database is extended.                    *)
LEMMA SeedsPlatformKeeps ==
  ASSUME ProvisioningInv, NEW c \in Command, SeedsPlatform(c)
  PROVE  ProvisioningInv'
<1> DEFINE m == command[c]
<1>1. /\ Stands(c, "platform") /\ Advances(c)
      /\ vocabulary' = vocabulary \cup m.seed.types
      /\ UNCHANGED <<city, policy, own, partitioned, registry, scaffolded>>
  BY DEF SeedsPlatform
<1>2. PlacesTypeOK
  BY DEF ProvisioningInv
<1>3. /\ m \in CreateCommand \cup MigrateCommand
      /\ m.step = "platform"
      /\ CreateStands(m) /\ MigrateStands(m)
      /\ command'[c] = [m EXCEPT !.step = Following(m.kind, "platform")]
      /\ m.seed.types \subseteq Type
  BY <1>1, NextOf
<1>4. Grows
  BY <1>1 DEF Grows
<1>5. CASE m.kind = "create"
  <2>1. m \in CreateCommand /\ Following(m.kind, "platform") = "city"
    BY <1>3, <1>5 DEF MigrateCommand, Following
  <2>2. CreateStands(command[c])' /\ MigrateStands(command[c])'
    BY <1>1, <1>3, <1>5, <2>1 DEF CreateStands, MigrateStands, CreateCommand
  <2> QED BY <1>1, <1>2, <1>3, <1>4, <1>5, <2>1, <2>2, AdvanceKeeps DEF PlacesTypeOK
<1>6. CASE m.kind = "migrate"
  <2>1. m \in MigrateCommand /\ Following(m.kind, "platform") = "migrate"
    BY <1>3, <1>6 DEF CreateCommand, Following
  <2>2. CreateStands(command[c])' /\ MigrateStands(command[c])'
    BY <1>1, <1>3, <1>6, <2>1 DEF CreateStands, MigrateStands, MigrateCommand
  <2> QED BY <1>1, <1>2, <1>3, <1>4, <1>6, <2>1, <2>2, AdvanceKeeps DEF PlacesTypeOK
<1> QED BY <1>3, <1>5, <1>6 DEF CreateCommand, MigrateCommand

(* A backfill leaves what is set and sets what the seed brings.            *)
LEMMA BackfillCovers ==
  ASSUME NEW s \in Site, NEW sd \in Seeds,
         policy \in [Site -> [Type -> Policy \cup {Unset}]]
  PROVE  /\ Backfilled(s, sd) \in [Type -> Policy \cup {Unset}]
         /\ \A t \in Type : policy[s][t] # Unset => Backfilled(s, sd)[t] = policy[s][t]
         /\ \A t \in vocabulary \cap Type : Backfilled(s, sd)[t] # Unset
  BY SeedAssumption DEF Backfilled

(* The policies of a city are backfilled, or the command ends.             *)
LEMMA SeedsCityKeeps ==
  ASSUME ProvisioningInv, NEW c \in Command, SeedsCity(c)
  PROVE  ProvisioningInv'
<1> DEFINE m == command[c]
           s == m.site
           b == Backfilled(s, m.seed)
<1>1. /\ Stands(c, "city")
      /\ \/ Named(b) \subseteq vocabulary /\ policy' = [policy EXCEPT ![s] = b] /\ Advances(c)
         \/ UNCHANGED policy /\ Done(c)
      /\ UNCHANGED <<vocabulary, city, own, partitioned, registry, scaffolded>>
  BY DEF SeedsCity
<1>2. PlacesTypeOK
  BY DEF ProvisioningInv
<1>3. CASE UNCHANGED policy /\ Done(c)
  <2>1. Grows
    BY <1>1, <1>3 DEF Grows
  <2> QED BY <1>1, <1>2, <1>3, <2>1, EndKeeps DEF PlacesTypeOK
<1>4. CASE policy' = [policy EXCEPT ![s] = b] /\ Advances(c)
  <2>1. /\ m \in CreateCommand \cup MigrateCommand
        /\ m.step = "city"
        /\ CreateStands(m) /\ MigrateStands(m)
        /\ command'[c] = [m EXCEPT !.step = Following(m.kind, "city")]
        /\ m.seed.types \subseteq Type
    BY <1>1, <1>4, NextOf
  <2>2. Following(m.kind, "city") = "partitions"
    BY <2>1 DEF CreateCommand, MigrateCommand, Following
  <2>3. s \in Site /\ m.seed \in Seeds /\ city[s] = "head" /\ m.seed.types \subseteq vocabulary
    <3>1. CASE m.kind = "create"
      BY <2>1, <3>1 DEF CreateStands, CreateCommand, MigrateCommand
    <3>2. CASE m.kind = "migrate"
      <4>1. m \in MigrateCommand
        BY <2>1, <3>2 DEF CreateCommand
      <4>2. s # Unset /\ s \in m.listed /\ m.seed.types \subseteq vocabulary
        BY <2>1, <3>2 DEF MigrateStands
      <4>3. s \in Site /\ registry[s].status # "none"
        BY <2>1, <3>2, <4>1, <4>2 DEF MigrateStands, MigrateCommand
      <4>4. city[s] = "head"
        BY <4>3 DEF ProvisioningInv, ServedIsProvisioned
      <4> QED BY <4>1, <4>2, <4>3, <4>4 DEF MigrateCommand
    <3> QED BY <2>1, <3>1, <3>2 DEF CreateCommand, MigrateCommand
  <2>4. /\ policy' \in [Site -> [Type -> Policy \cup {Unset}]]
        /\ \A r \in Site, t \in Type : policy[r][t] # Unset => policy'[r][t] # Unset
        /\ \A t \in m.seed.types : policy'[s][t] # Unset
    <3>1. policy \in [Site -> [Type -> Policy \cup {Unset}]]
      BY <1>2 DEF PlacesTypeOK
    <3>2. /\ b \in [Type -> Policy \cup {Unset}]
          /\ \A t \in Type : policy[s][t] # Unset => b[t] = policy[s][t]
          /\ \A t \in vocabulary \cap Type : b[t] # Unset
      BY <2>3, <3>1, BackfillCovers
    <3> HIDE DEF b
    <3> QED BY <1>4, <2>1, <2>3, <3>1, <3>2
  <2>5. Grows
    BY <1>1, <2>4 DEF Grows
  <2>6. CreateStands(command[c])' /\ MigrateStands(command[c])'
    <3>1. Covered(s, m.seed.types)'
      <4>1. command'[c].site = s /\ command'[c].seed = m.seed
        BY <2>1 DEF CreateCommand, MigrateCommand
      <4>2. city'[s] = "head" /\ \A t \in m.seed.types : policy'[s][t] # Unset
        BY <1>1, <2>3, <2>4
      <4>3. city'[command'[c].site] = "head"
            /\ \A t \in command'[c].seed.types : policy'[command'[c].site][t] # Unset
        BY <4>1, <4>2
      <4> QED BY <4>3 DEF Covered
    <3>2. \A r \in Site, ts \in SUBSET Type : Covered(r, ts) => Covered(r, ts)'
      BY <2>5 DEF Covered, Grows
    <3>3. CASE m.kind = "create"
      <4>1. m \in CreateCommand
        BY <2>1, <3>3 DEF MigrateCommand
      <4> QED BY <1>1, <2>1, <2>2, <2>3, <3>1, <3>3, <4>1 DEF CreateStands, MigrateStands, CreateCommand
    <3>4. CASE m.kind = "migrate"
      <4>1. m \in MigrateCommand
        BY <2>1, <3>4 DEF CreateCommand
      <4>2. \A r \in m.listed \ m.left : r # s => Covered(r, m.seed.types)
        BY <2>1, <3>4 DEF MigrateStands
      <4>3. \A r \in m.listed \ m.left : Covered(r, m.seed.types)'
        BY <2>1, <2>2, <3>1, <3>2, <4>1, <4>2 DEF MigrateCommand
      <4> QED BY <1>1, <2>1, <2>2, <3>4, <4>1, <4>3 DEF CreateStands, MigrateStands, MigrateCommand
    <3> QED BY <2>1, <3>3, <3>4 DEF CreateCommand, MigrateCommand
  <2> HIDE DEF b
  <2>7. Following(m.kind, "city") \in
           IF m.kind = "create"
           THEN {"migrate", "platform", "city", "partitions", "register", "scaffold"}
           ELSE {"migrate", "city", "partitions", "decay", "confidence"}
    BY <2>2
  <2> QED BY <1>1, <1>2, <1>4, <2>4, <2>5, <2>6, <2>7, AdvanceKeeps DEF PlacesTypeOK
<1> QED BY <1>1, <1>3, <1>4

(* Partitions, the registry and its weights: the site that is entered has  *)
(* been provisioned by the command that enters it.                         *)
LEMMA PartitionsKeep ==
  ASSUME ProvisioningInv, NEW c \in Command, Partitions(c)
  PROVE  ProvisioningInv'
<1> DEFINE m == command[c]
<1>1. /\ Stands(c, "partitions") /\ Advances(c)
      /\ partitioned' = partitioned \cup {m.site}
      /\ UNCHANGED <<vocabulary, city, policy, own, registry, scaffolded>>
  BY DEF Partitions
<1>2. PlacesTypeOK
  BY DEF ProvisioningInv
<1>3. /\ m \in CreateCommand \cup MigrateCommand
      /\ m.step = "partitions"
      /\ CreateStands(m) /\ MigrateStands(m)
      /\ command'[c] = [m EXCEPT !.step = Following(m.kind, "partitions")]
  BY <1>1, NextOf
<1>4. Grows
  BY <1>1 DEF Grows
<1>5. CASE m.kind = "create"
  <2>1. m \in CreateCommand /\ Following(m.kind, "partitions") = "register"
    BY <1>3, <1>5 DEF MigrateCommand, Following
  <2>2. CreateStands(command[c])' /\ MigrateStands(command[c])'
    BY <1>1, <1>3, <1>5, <2>1 DEF CreateStands, MigrateStands, CreateCommand, Covered
  <2>3. m.site \in Site
    BY <2>1 DEF CreateCommand
  <2> QED BY <1>1, <1>2, <1>3, <1>4, <1>5, <2>1, <2>2, <2>3, AdvanceKeeps DEF PlacesTypeOK
<1>6. CASE m.kind = "migrate"
  <2>1. m \in MigrateCommand /\ Following(m.kind, "partitions") = "decay"
    BY <1>3, <1>6 DEF CreateCommand, Following
  <2>2. CreateStands(command[c])' /\ MigrateStands(command[c])'
    BY <1>1, <1>3, <1>6, <2>1 DEF CreateStands, MigrateStands, MigrateCommand, Covered
  <2>3. m.site \in Site
    BY <1>3, <1>6, <2>1 DEF MigrateCommand, MigrateStands
  <2> QED BY <1>1, <1>2, <1>3, <1>4, <1>6, <2>1, <2>2, <2>3, AdvanceKeeps DEF PlacesTypeOK
<1> QED BY <1>3, <1>5, <1>6 DEF CreateCommand, MigrateCommand

(* site:create enters the site as active once schema, seeds and partitions *)
(* are there, so it is provisioned at the moment it is served.             *)
LEMMA EntersRegistryKeeps ==
  ASSUME ProvisioningInv, NEW c \in Command, EntersRegistry(c)
  PROVE  ProvisioningInv'
<1> DEFINE m == command[c]
           s == m.site
<1>1. /\ Stands(c, "register") /\ Advances(c)
      /\ registry' = [registry EXCEPT ![s] = WithConfidence(WithDecay([@ EXCEPT !.status = "active"]))]
      /\ UNCHANGED <<vocabulary, city, policy, own, partitioned, scaffolded>>
  BY DEF EntersRegistry
<1>2. PlacesTypeOK
  BY DEF ProvisioningInv
<1>3. /\ m \in CreateCommand \cup MigrateCommand
      /\ m.step = "register"
      /\ CreateStands(m) /\ MigrateStands(m)
      /\ command'[c] = [m EXCEPT !.step = Following(m.kind, "register")]
  BY <1>1, NextOf
<1>4. m \in CreateCommand /\ m.kind = "create" /\ Following(m.kind, "register") = "scaffold"
  BY <1>3 DEF CreateCommand, MigrateCommand, Following
<1>5. s \in Site /\ m.seed \in Seeds
  BY <1>4 DEF CreateCommand
<1>6. /\ registry' \in [Site -> [status : {"none", "active", "disabled"},
                                 decay : {"none", "seeded", "tuned"},
                                 confidence : {"none", "seeded", "tuned"}]]
      /\ registry'[s].status = "active" /\ registry'[s].decay # "none"
      /\ \A r \in Site : r # s => registry'[r] = registry[r]
  BY <1>1, <1>2, <1>5 DEF PlacesTypeOK, WithConfidence, WithDecay
<1>7. Grows
  BY <1>1, <1>6 DEF Grows
<1>8. /\ city[s] = "head" /\ s \in partitioned
      /\ \A t \in m.seed.types : policy[s][t] # Unset
  BY <1>3, <1>4 DEF CreateStands, Covered
<1>9. CreateStands(command[c])' /\ MigrateStands(command[c])'
  BY <1>1, <1>3, <1>4 DEF CreateStands, MigrateStands, CreateCommand, Covered
<1>10. \A r \in Site : registry'[r].status # "none" /\ registry[r].status = "none" =>
          /\ city'[r] = "head" /\ r \in partitioned' /\ registry'[r].decay # "none"
          /\ \E sd \in Seeds : \A t \in sd.types : policy'[r][t] # Unset
  BY <1>1, <1>5, <1>6, <1>8
<1> QED BY <1>1, <1>2, <1>4, <1>6, <1>7, <1>9, <1>10, AdvanceKeeps DEF PlacesTypeOK

(* The first of the two weights a migration writes where it is missing.    *)
LEMMA DecaysSiteKeeps ==
  ASSUME ProvisioningInv, NEW c \in Command, DecaysSite(c)
  PROVE  ProvisioningInv'
<1> DEFINE m == command[c]
<1>1. /\ Stands(c, "decay") /\ Advances(c)
      /\ registry' = [registry EXCEPT ![m.site] = WithDecay(@)]
      /\ UNCHANGED <<vocabulary, city, policy, own, partitioned, scaffolded>>
  BY DEF DecaysSite
<1>2. PlacesTypeOK
  BY DEF ProvisioningInv
<1>3. /\ m \in CreateCommand \cup MigrateCommand
      /\ m.step = "decay"
      /\ CreateStands(m) /\ MigrateStands(m)
      /\ command'[c] = [m EXCEPT !.step = Following(m.kind, "decay")]
  BY <1>1, NextOf
<1>4. m \in MigrateCommand /\ m.kind = "migrate" /\ Following(m.kind, "decay") = "confidence"
  BY <1>3 DEF CreateCommand, MigrateCommand, Following
<1>5. m.site \in Site
  BY <1>3, <1>4 DEF MigrateCommand, MigrateStands
<1>6. /\ registry' \in [Site -> [status : {"none", "active", "disabled"},
                                 decay : {"none", "seeded", "tuned"},
                                 confidence : {"none", "seeded", "tuned"}]]
      /\ \A r \in Site : /\ registry'[r].status = registry[r].status
                         /\ registry[r].decay # "none" => registry'[r].decay # "none"
  BY <1>1, <1>2, <1>5 DEF PlacesTypeOK, WithDecay
<1>7. Grows
  BY <1>1, <1>6 DEF Grows
<1>8. CreateStands(command[c])' /\ MigrateStands(command[c])'
  <2>1. m.listed \subseteq Site
    BY <1>4 DEF MigrateCommand
  <2> QED BY <1>1, <1>3, <1>4, <1>6, <2>1 DEF CreateStands, MigrateStands, MigrateCommand, Covered
<1> QED BY <1>1, <1>2, <1>4, <1>6, <1>7, <1>8, AdvanceKeeps DEF PlacesTypeOK

(* The second weight, with which the site is done: it counts as covered    *)
(* from now on.                                                            *)
LEMMA ConfidesSiteKeeps ==
  ASSUME ProvisioningInv, NEW c \in Command, ConfidesSite(c)
  PROVE  ProvisioningInv'
<1> DEFINE m == command[c]
<1>1. /\ Stands(c, "confidence")
      /\ registry' = [registry EXCEPT ![m.site] = WithConfidence(@)]
      /\ command' = [command EXCEPT ![c].site = Unset, ![c].step = "end"]
      /\ UNCHANGED <<vocabulary, city, policy, own, partitioned, scaffolded>>
  BY DEF ConfidesSite
<1>2. PlacesTypeOK /\ CreateStands(m) /\ MigrateStands(m)
  BY DEF ProvisioningInv
<1>3. m \in MigrateCommand /\ m.kind = "migrate" /\ m.step = "confidence"
  BY <1>1, <1>2 DEF Stands, PlacesTypeOK, NoCommand, CreateCommand, MigrateCommand
<1>4. m.site \in Site
  BY <1>2, <1>3 DEF MigrateCommand, MigrateStands
<1>5. /\ command'[c] = [m EXCEPT !.site = Unset, !.step = "end"]
      /\ \A d \in Command : d # c => command'[d] = command[d]
  BY <1>1, <1>2, <1>3 DEF PlacesTypeOK, MigrateCommand
<1>6. command'[c] \in MigrateCommand
  BY <1>3, <1>5 DEF MigrateCommand
<1>7. /\ registry' \in [Site -> [status : {"none", "active", "disabled"},
                                 decay : {"none", "seeded", "tuned"},
                                 confidence : {"none", "seeded", "tuned"}]]
      /\ \A r \in Site : /\ registry'[r].status = registry[r].status
                         /\ registry'[r].decay = registry[r].decay
  BY <1>1, <1>2, <1>4 DEF PlacesTypeOK, WithConfidence
<1>8. Grows
  BY <1>1, <1>7 DEF Grows
<1>9. PlacesTypeOK'
  BY <1>1, <1>2, <1>6, <1>7 DEF PlacesTypeOK
<1>10. CreateStands(command[c])' /\ MigrateStands(command[c])'
  <2>1. m.listed \subseteq Site /\ Unset \notin Site
    BY <1>3, SeedAssumption DEF MigrateCommand
  <2>2. \A r \in m.listed \ m.left : Covered(r, m.seed.types)
    BY <1>2, <1>3 DEF MigrateStands
  <2>3. /\ command'[c].kind = "migrate" /\ command'[c].step = "end" /\ command'[c].site = Unset
        /\ command'[c].left = m.left /\ command'[c].listed = m.listed
        /\ command'[c].seed = m.seed
    BY <1>3, <1>5 DEF MigrateCommand
  <2>4. \A r \in m.listed \ m.left : Covered(r, command[c].seed.types)'
    BY <1>1, <2>2, <2>3 DEF Covered
  <2>5. m.left \subseteq m.listed /\ m.seed.types \subseteq vocabulary
        /\ \A r \in m.listed : registry[r].status # "none"
    BY <1>2, <1>3 DEF MigrateStands
  <2>6. \A r \in m.listed : registry'[r].status # "none"
    BY <1>7, <2>1, <2>5
  <2> QED BY <1>1, <2>3, <2>4, <2>5, <2>6 DEF CreateStands, MigrateStands
<1> QED BY <1>1, <1>5, <1>7, <1>8, <1>9, <1>10, GrowthKeepsInvariant

(* A migration takes up the next of the sites it listed.                   *)
LEMMA TakesSiteKeeps ==
  ASSUME ProvisioningInv, NEW c \in Command, NEW s \in Site, TakesSite(c, s)
  PROVE  ProvisioningInv'
<1> DEFINE m == command[c]
<1>1. /\ m.kind = "migrate" /\ m.step \in {"migrate", "end"} /\ m.site = Unset /\ s \in m.left
      /\ command' = [command EXCEPT ![c].site = s, ![c].left = @ \ {s}, ![c].step = "migrate"]
      /\ UNCHANGED <<vocabulary, city, policy, own, partitioned, registry, scaffolded>>
  BY DEF TakesSite
<1>2. PlacesTypeOK /\ CreateStands(m) /\ MigrateStands(m)
  BY DEF ProvisioningInv
<1>3. m \in MigrateCommand
  BY <1>1, <1>2 DEF PlacesTypeOK, NoCommand, CreateCommand
<1>4. /\ command'[c] = [m EXCEPT !.site = s, !.left = m.left \ {s}, !.step = "migrate"]
      /\ \A d \in Command : d # c => command'[d] = command[d]
  BY <1>1, <1>2, <1>3 DEF PlacesTypeOK, MigrateCommand
<1>5. command'[c] \in MigrateCommand
  BY <1>3, <1>4 DEF MigrateCommand
<1>6. Grows
  BY <1>1 DEF Grows
<1>7. PlacesTypeOK'
  BY <1>1, <1>2, <1>5 DEF PlacesTypeOK
<1>8. CreateStands(command[c])' /\ MigrateStands(command[c])'
  <2>1. m.listed \subseteq Site /\ Unset \notin Site
    BY <1>3, SeedAssumption DEF MigrateCommand
  <2>2. \A r \in m.listed \ m.left : Covered(r, m.seed.types)
    BY <1>1, <1>2, <2>1 DEF MigrateStands
  <2>3. /\ command'[c].kind = "migrate" /\ command'[c].step = "migrate" /\ command'[c].site = s
        /\ command'[c].left = m.left \ {s} /\ command'[c].listed = m.listed
        /\ command'[c].seed = m.seed
    BY <1>3, <1>4 DEF MigrateCommand
  <2>4. \A r \in m.listed \ m.left : Covered(r, command[c].seed.types)'
    BY <1>1, <2>2, <2>3 DEF Covered
  <2>5. /\ m.left \subseteq m.listed /\ m.seed.types \subseteq vocabulary
        /\ \A r \in m.listed : registry[r].status # "none"
    BY <1>1, <1>2 DEF MigrateStands
  <2> QED BY <1>1, <2>1, <2>3, <2>4, <2>5 DEF CreateStands, MigrateStands
<1> QED BY <1>1, <1>4, <1>6, <1>7, <1>8, GrowthKeepsInvariant

(* Editors and operators.                                                  *)
LEMMA PeopleKeep ==
  ASSUME ProvisioningInv, NEW s \in Site,
         \/ \E t \in Type, p \in Policy : Overrides(s, t, p)
         \/ Tunes(s) \/ Disables(s)
  PROVE  ProvisioningInv'
<1>1. PlacesTypeOK
  BY DEF ProvisioningInv
<1>2. ASSUME NEW t \in Type, NEW p \in Policy, Overrides(s, t, p) PROVE ProvisioningInv'
  <2>1. /\ city[s] = "head"
        /\ policy' = [policy EXCEPT ![s][t] = p]
        /\ own' = own \cup {<<s, t>>}
        /\ UNCHANGED <<vocabulary, city, partitioned, registry, scaffolded, command>>
    BY <1>2 DEF Overrides
  <2>2. /\ policy' \in [Site -> [Type -> Policy \cup {Unset}]]
        /\ policy'[s][t] # Unset
        /\ \A r \in Site, u \in Type : policy[r][u] # Unset => policy'[r][u] # Unset
    BY <1>1, <2>1, SeedAssumption DEF PlacesTypeOK
  <2>3. Grows
    BY <2>1, <2>2 DEF Grows
  <2>4. PlacesTypeOK'
    BY <1>1, <2>1, <2>2 DEF PlacesTypeOK
  <2> QED BY <2>1, <2>2, <2>3, <2>4, GrowthKeepsInvariant
<1>3. CASE Tunes(s)
  <2>1. PICK confidence \in {"none", "tuned"} :
          registry' = [registry EXCEPT ![s].decay = "tuned", ![s].confidence = confidence]
    BY <1>3 DEF Tunes
  <2>2. UNCHANGED <<vocabulary, city, policy, own, partitioned, scaffolded, command>>
    BY <1>3 DEF Tunes
  <2>3. PlacesTypeOK'
    BY <1>1, <2>1, <2>2 DEF PlacesTypeOK
  <2>4. Grows /\ \A r \in Site : registry'[r].status = registry[r].status
    BY <1>1, <2>1, <2>2 DEF Grows, PlacesTypeOK
  <2> QED BY <2>2, <2>3, <2>4, GrowthKeepsInvariant
<1>4. CASE Disables(s)
  <2>1. /\ registry[s].status = "active"
        /\ registry' = [registry EXCEPT ![s].status = "disabled"]
        /\ UNCHANGED <<vocabulary, city, policy, own, partitioned, scaffolded, command>>
    BY <1>4 DEF Disables
  <2>2. PlacesTypeOK'
    BY <1>1, <2>1 DEF PlacesTypeOK
  <2>3. Grows /\ \A r \in Site : registry'[r].status # "none" => registry[r].status # "none"
    BY <1>1, <2>1 DEF Grows, PlacesTypeOK
  <2> QED BY <2>1, <2>2, <2>3, GrowthKeepsInvariant
<1> QED BY <1>2, <1>3, <1>4

-----------------------------------------------------------------------------
(* One step per action.                                                    *)
LEMMA ProvisioningStep ==
  ProvisioningInv /\ [ProvisioningNext]_provisioningVars => ProvisioningInv'
<1> SUFFICES ASSUME ProvisioningInv, [ProvisioningNext]_provisioningVars PROVE ProvisioningInv'
  OBVIOUS
<1>1. ASSUME NEW c \in Command, NEW sd \in Seeds,
             (\E s \in Site : CreateStarts(c, s, sd)) \/ MigrateStarts(c, sd)
      PROVE  ProvisioningInv'
  BY <1>1, StartKeeps
<1>2. ASSUME NEW c \in Command, MigrateEnds(c) \/ Breaks(c) PROVE ProvisioningInv'
  <2>1. Done(c) /\ UNCHANGED <<vocabulary, city, policy, own, partitioned, registry, scaffolded>>
    BY <1>2 DEF MigrateEnds, Breaks
  <2> QED BY <2>1, EndKeeps DEF Grows, ProvisioningInv, PlacesTypeOK
<1>3. ASSUME NEW c \in Command, Scaffolds(c) PROVE ProvisioningInv'
  <2>1. /\ Stands(c, "scaffold") /\ Done(c) /\ scaffolded' = scaffolded \cup {command[c].site}
        /\ UNCHANGED <<vocabulary, city, policy, own, partitioned, registry>>
    BY <1>3 DEF Scaffolds
  <2>2. command[c].site \in Site /\ scaffolded \subseteq Site
    BY <2>1 DEF Stands, ProvisioningInv, PlacesTypeOK, NoCommand, CreateCommand, MigrateCommand
  <2> QED BY <2>1, <2>2, EndKeeps DEF Grows
<1>4. CASE UNCHANGED provisioningVars
  BY <1>4 DEF provisioningVars, ProvisioningInv, PlacesTypeOK, ServedIsProvisioned, OwnIsSet,
              CreateStands, MigrateStands, Covered
<1> QED
  BY <1>1, <1>2, <1>3, <1>4, TakesSiteKeeps, EnsuresDatabaseKeeps, MigratesKeeps,
     SeedsPlatformKeeps, SeedsCityKeeps, PartitionsKeep, EntersRegistryKeeps, DecaysSiteKeeps,
     ConfidesSiteKeeps, PeopleKeep DEF ProvisioningNext

(* Types, the steps and the served sites hold in every state.              *)
THEOREM ProvisioningInvariant == ProvisioningSpec => []ProvisioningInv
<1>1. ProvisioningInit => ProvisioningInv
  BY DEF ProvisioningInit, ProvisioningInv, PlacesTypeOK, ServedIsProvisioned, OwnIsSet,
         CreateStands, MigrateStands, NoRow, NoCommand
<1> QED BY <1>1, ProvisioningStep, PTL DEF ProvisioningSpec

(* Rows and commands have the types of their tables and steps.             *)
THEOREM ProvisioningTypeCorrect == ProvisioningSpec => []ProvisioningTypeOK
<1>1. ProvisioningInv => ProvisioningTypeOK
  <2> SUFFICES ASSUME PlacesTypeOK PROVE ProvisioningTypeOK
    BY DEF ProvisioningInv
  <2>1. \A s \in Site, t \in Type : policy[s][t] = Unset \/ policy[s][t] \in Policy
    BY DEF PlacesTypeOK
  <2>2. \A c \in Command : command[c] = NoCommand \/ command[c].seed \in Seeds
    BY DEF PlacesTypeOK, CreateCommand, MigrateCommand
  <2> QED BY <2>1, <2>2 DEF PlacesTypeOK, ProvisioningTypeOK
<1> QED BY <1>1, ProvisioningInvariant, PTL

(* A site that is served has a migrated database, partitions, a decay and  *)
(* the policies of a release, whoever died where (provisioning.py's order  *)
(* of steps: the registry comes after everything it promises).             *)
THEOREM ServedIsProvisionedForAll == ProvisioningSpec => []ServedIsProvisioned
<1>1. ProvisioningInv => ServedIsProvisioned
  BY DEF ProvisioningInv
<1> QED BY <1>1, ProvisioningInvariant, PTL

(* A migration that has come to its end covered every site it listed       *)
(* (migrate_all walks the whole registry).                                 *)
THEOREM MigrateCoversForAll == ProvisioningSpec => []MigrateCovers
<1>1. ProvisioningInv => MigrateCovers
  <2> SUFFICES ASSUME ProvisioningInv, NEW c \in Command,
                      command[c].kind = "migrate", command[c].step = "end", command[c].left = {},
                      NEW s \in command[c].listed, NEW t \in command[c].seed.types
               PROVE  policy[s][t] # Unset
    BY DEF MigrateCovers
  <2>1. MigrateStands(command[c])
    BY DEF ProvisioningInv
  <2>2. Covered(s, command[c].seed.types)
    BY <2>1 DEF MigrateStands
  <2> QED BY <2>2 DEF Covered
<1> QED BY <1>1, ProvisioningInvariant, PTL

(* No command undoes a policy, a decay or a confidence that an editor set  *)
(* (the backfill and the jsonb_set writes touch only what is missing).     *)
THEOREM TuningSurvivesForAll == ProvisioningSpec => TuningSurvives
<1> DEFINE Kept ==
      command # command' =>
          /\ \A st \in own : policy'[st[1]][st[2]] = policy[st[1]][st[2]]
          /\ \A s \in Site : registry[s].decay = "tuned" => registry'[s].decay = "tuned"
          /\ \A s \in Site : registry[s].confidence = "tuned" => registry'[s].confidence = "tuned"
<1>1. ProvisioningInv /\ [ProvisioningNext]_provisioningVars => [Kept]_provisioningVars
  <2> SUFFICES ASSUME ProvisioningInv, ProvisioningNext, command # command' PROVE Kept
    OBVIOUS
  <2>1. PlacesTypeOK /\ OwnIsSet /\ \A st \in own : st[1] \in Site /\ st[2] \in Type
    BY DEF ProvisioningInv, PlacesTypeOK
  <2>2. ASSUME NEW c \in Command, Migrates(c) PROVE Kept
    <3>1. \A st \in own : city[st[1]] # "empty"
      BY <2>1 DEF OwnIsSet
    <3>2. registry' = registry
      BY <2>2 DEF Migrates
    <3>3. \A st \in own : policy'[st[1]][st[2]] = policy[st[1]][st[2]]
      BY <2>1, <2>2, <3>1 DEF Migrates, PlacesTypeOK
    <3> QED BY <3>2, <3>3
  <2>3. ASSUME NEW c \in Command, SeedsCity(c) PROVE Kept
    <3>1. registry' = registry
      BY <2>3 DEF SeedsCity
    <3>2. command[c].kind # "none"
      BY <2>3 DEF SeedsCity, Stands
    <3>3. command[c].seed \in Seeds /\ policy \in [Site -> [Type -> Policy \cup {Unset}]]
      BY <2>1, <3>2 DEF PlacesTypeOK, NoCommand, CreateCommand, MigrateCommand
    <3>4. \A s \in Site, t \in Type : policy[s][t] # Unset =>
             Backfilled(s, command[c].seed)[t] = policy[s][t]
      BY <3>3, BackfillCovers
    <3>5. \/ policy' = policy
          \/ policy' = [policy EXCEPT ![command[c].site] =
                                        Backfilled(command[c].site, command[c].seed)]
      BY <2>3 DEF SeedsCity
    <3>6. \A st \in own : policy'[st[1]][st[2]] = policy[st[1]][st[2]]
      BY <2>1, <3>3, <3>4, <3>5 DEF OwnIsSet
    <3> QED BY <3>1, <3>6
  <2>4. ASSUME NEW c \in Command, EntersRegistry(c) \/ DecaysSite(c) \/ ConfidesSite(c) PROVE Kept
    <3>1. policy' = policy
      BY <2>4 DEF EntersRegistry, DecaysSite, ConfidesSite
    <3>2. \A s \in Site : /\ registry[s].decay = "tuned" => registry'[s].decay = "tuned"
                          /\ registry[s].confidence = "tuned" => registry'[s].confidence = "tuned"
      <4> DEFINE u == command[c].site
      <4>1. registry \in [Site -> [status : {"none", "active", "disabled"},
                                  decay : {"none", "seeded", "tuned"},
                                  confidence : {"none", "seeded", "tuned"}]]
        BY <2>1 DEF PlacesTypeOK
      <4>2. CASE registry' = [registry EXCEPT ![u] = WithConfidence(WithDecay([@ EXCEPT !.status = "active"]))]
        BY <4>1, <4>2 DEF WithDecay, WithConfidence
      <4>3. CASE registry' = [registry EXCEPT ![u] = WithDecay(@)]
        BY <4>1, <4>3 DEF WithDecay
      <4>4. CASE registry' = [registry EXCEPT ![u] = WithConfidence(@)]
        BY <4>1, <4>4 DEF WithConfidence
      <4> QED BY <2>4, <4>2, <4>3, <4>4 DEF EntersRegistry, DecaysSite, ConfidesSite
    <3> QED BY <3>1, <3>2
  <2>5. CASE UNCHANGED <<policy, registry>>
    BY <2>5
  <2> QED
    BY <2>2, <2>3, <2>4, <2>5
    DEF ProvisioningNext, CreateStarts, MigrateStarts, TakesSite, EnsuresDatabase, SeedsPlatform,
        Partitions, Scaffolds, MigrateEnds, Breaks, Overrides, Tunes, Disables
<1> QED BY <1>1, ProvisioningInvariant, PTL DEF ProvisioningSpec, TuningSurvives
=============================================================================
