----------------------------- MODULE Partitions -----------------------------
(* The daily partitions that a city's interactions and impressions are     *)
(* written to: made ahead by site:create and by the worker's nightly cron, *)
(* dropped again behind the retention window, and missed on the nights on  *)
(* which the worker is down, the database does not answer, or the city is  *)
(* not active in the registry.  Both tables are maintained in one          *)
(* transaction, so one set of days stands for both.                        *)
EXTENDS Integers, FiniteSets

CONSTANTS
    MaxDay,     \* bound: days of the calendar
    Ahead,      \* partition_days_ahead of the worker
    FirstAhead, \* days_ahead of ensure_city_partitions
    Retention   \* interaction_retention_days, when one is set

ASSUME PartitionAssumption ==
    /\ MaxDay \in Nat /\ Ahead \in Nat /\ FirstAhead \in Nat
    /\ Retention \in Nat \ {0}

VARIABLES
    today,
    site,      \* its row of engine.sites: "none", "active" or "disabled"
    parts,     \* days that have a partition
    covered,   \* history: the last day the latest maintenance made sure of
    written    \* history: days for which a row was ever written

partitionVars == <<today, site, parts, covered, written>>

Day == -1 .. MaxDay + Ahead + FirstAhead

PartitionsInit ==
    /\ today = 0
    /\ site = "none"
    /\ parts = {}
    /\ covered = -1
    /\ written = {}

\* mutant: the day before is left out
WindowFromToday(days) == today .. today + days

\* ensure_daily_partitions: days_back is 1.
Window(days) == today - 1 .. today + days

Ensures(days) ==
    /\ parts' = parts \cup Window(days)
    /\ covered' = today + days

Opens ==
    /\ Ensures(FirstAhead)
    /\ site' = "active"
    /\ UNCHANGED <<today, written>>

\* Active sites only.
Maintains ==
    /\ site = "active"
    /\ Ensures(Ahead)
    /\ UNCHANGED <<today, site, written>>

\* mutant: the window counts from the partition's end
OutdatedByOne == {d \in parts : d <= today - Retention}

Outdated == {d \in parts : d < today - Retention}

DropsOld ==
    /\ site = "active"
    /\ parts' = parts \ Outdated
    /\ UNCHANGED <<today, site, covered, written>>

Closes ==
    /\ site = "active"
    /\ site' = "disabled"
    /\ UNCHANGED <<today, parts, covered, written>>

\* status is a column of the registry: an operator may set it back by hand.
Reopens ==
    /\ site = "disabled"
    /\ site' = "active"
    /\ UNCHANGED <<today, parts, covered, written>>

Midnight ==
    /\ today < MaxDay
    /\ today' = today + 1
    /\ UNCHANGED <<site, parts, covered, written>>

\* write_events: every row of the batch goes to the partition of its day, or the
\* transaction is rolled back.
Writable(days) == site = "active" /\ days \subseteq parts

Writes(days) == written' = written \cup days

MaintenanceNext ==
    Opens \/ Maintains \/ DropsOld \/ Closes \/ Reopens \/ Midnight

-----------------------------------------------------------------------------
\* Fourteen days of runway mean that a missed night is not an incident
\* (main.py): until the days ensured by the latest pass are used up, the events
\* of today and those of yesterday that arrive late have a partition, whatever
\* was dropped, disabled and reopened meanwhile.
RunwayHolds ==
    today <= covered => {today - 1, today} \subseteq parts

\* Retention never takes a day too early: whatever was written for one of the
\* last Retention days is still there.
RetentionKeeps ==
    \A d \in written : d >= today - Retention => d \in parts
=============================================================================
