---------------------------- MODULE Subscription ----------------------------
(***************************************************************************)
(* A publisher's signals executed for one marketplace subscriber           *)
(* (signals.py, accept to process; marketplace.py, subscription_gate and   *)
(* note_outcome): the fan-out reads the publisher's list and the           *)
(* subscriber's row, each signal is a task that passes the gates, waits    *)
(* for the trade's lock, runs, and reports its outcome, which counts       *)
(* towards the subscriber's daily cap and its streak of errors.            *)
(*                                                                         *)
(* The cap's count lives in memory, seeded from the log of outcomes when   *)
(* the process has none.                                                   *)
(***************************************************************************)
EXTENDS Integers, FiniteSets, FiniteSetsExt

CONSTANTS
    Entries,      \* bracket entries among the signals
    TsEntries,    \* TS-Hunter entries: no action in their payload
    Manage,       \* moves and closes
    Cap,          \* max_signals_per_day
    MaxErrors,    \* pause_after_errors, 0 for never
    MaxToggles    \* flips of the trading switch, of the list, of the subscription

Signal == Entries \cup TsEntries \cup Manage
Opens == Entries \cup TsEntries
NoCount == -1

VARIABLES
    at,           \* per signal: "none", "queued", "waiting", "running", "done"
    switchSeen,   \* the trading switch in the settings a queued signal carries
    trading, listed, enabled, toggles,
    count,        \* today's count in memory
    logged,       \* today's outcomes in the signal log: signals that were not skipped
    streak,       \* errors in a row
    executed,     \* signals the engine ran
    givenBack     \* history: slots given back that were never reserved

vars == <<at, switchSeen, trading, listed, enabled, toggles, count, logged, streak, executed, givenBack>>
settings == <<trading, listed, enabled, toggles>>

TypeOK ==
    /\ at \in [Signal -> {"none", "queued", "waiting", "running", "done"}]
    /\ switchSeen \in [Signal -> BOOLEAN]
    /\ trading \in BOOLEAN /\ listed \in BOOLEAN /\ enabled \in BOOLEAN /\ toggles \in 0 .. MaxToggles
    /\ count \in NoCount .. 2 * Cardinality(Signal) /\ logged \subseteq executed
    /\ streak \in 0 .. (IF MaxErrors = 0 THEN 0 ELSE MaxErrors - 1) /\ executed \subseteq Signal
    /\ givenBack \in 0 .. Cardinality(Signal)
    /\ Cardinality({s \in Signal : at[s] = "running"}) <= 1

Init ==
    /\ at = [s \in Signal |-> "none"] /\ switchSeen = [s \in Signal |-> FALSE]
    /\ trading = TRUE /\ listed = TRUE /\ enabled = TRUE /\ toggles = 0
    /\ count = NoCount /\ logged = {} /\ streak = 0 /\ executed = {} /\ givenBack = 0
------------------------------------------------------------------------------
\* signals_today: the log is asked when the process has no count of the day.
Today == IF count = NoCount THEN Cardinality(logged) ELSE count

\* The fan-out: the row of a subscriber who left the publisher's list is no lease.
Forward(s) ==
    /\ at[s] = "none" /\ listed /\ enabled
    /\ at' = [at EXCEPT ![s] = "queued"]
    /\ switchSeen' = [switchSeen EXCEPT ![s] = trading]
    /\ UNCHANGED <<settings, count, logged, streak, executed, givenBack>>

\* Fault: the error at the limit does not count.
PausesAfter(n) == n > MaxErrors

\* The error that reaches the limit pauses the subscription.
Pauses(n) == n >= MaxErrors

\* note_outcome and _note_subscription_outcome, for a signal that ends with
\* today's count n in memory: skips do not count, and an entry has its slot.
Noted(s, status, n) ==
    /\ at' = [at EXCEPT ![s] = "done"]
    /\ count' = CASE n = NoCount -> NoCount
                  [] n # NoCount /\ s \in Entries -> IF status = "skipped" THEN IF n = 0 THEN 0 ELSE n - 1 ELSE n
                  [] OTHER -> IF status = "skipped" THEN n ELSE n + 1
    /\ logged' = IF status = "skipped" THEN logged ELSE logged \cup {s}
    /\ IF MaxErrors = 0 \/ status = "skipped" THEN UNCHANGED <<streak, enabled>>
       ELSE IF status = "ok" THEN streak' = 0 /\ UNCHANGED enabled
       ELSE IF Pauses(streak + 1) THEN streak' = 0 /\ enabled' = FALSE
       ELSE streak' = streak + 1 /\ UNCHANGED enabled

Skip(s, n, reserved) ==
    /\ Noted(s, "skipped", n)
    /\ givenBack' = givenBack + (IF s \in Entries /\ n > 0 /\ ~reserved THEN 1 ELSE 0)
    /\ UNCHANGED <<switchSeen, trading, listed, toggles, executed>>

\* Fault: the count is looked at here and taken only by the outcome.
GatesUnreserved(s) ==
    /\ at[s] = "queued"
    /\ \/ ~switchSeen[s] /\ Skip(s, count, FALSE)
       \/ /\ switchSeen[s]
          /\ IF s \in Opens /\ Today >= Cap
               THEN Skip(s, Today, TRUE)
               ELSE /\ count' = Today /\ at' = [at EXCEPT ![s] = "waiting"]
                    /\ UNCHANGED <<switchSeen, settings, logged, streak, executed, givenBack>>

\* process, up to the trade's lock: the trading switch, the subscription's gate,
\* then the news, the trading window and the accounts, which may still skip it.
Gates(s) ==
    /\ at[s] = "queued"
    /\ \/ ~switchSeen[s] /\ Skip(s, count, FALSE)
       \/ /\ switchSeen[s]
          /\ IF s \in Opens /\ Today >= Cap
               THEN Skip(s, Today, FALSE)
               ELSE LET n == IF s \in Opens THEN Today + 1 ELSE count IN
                    \/ /\ count' = n /\ at' = [at EXCEPT ![s] = "waiting"]
                       /\ UNCHANGED <<switchSeen, settings, logged, streak, executed, givenBack>>
                    \/ Skip(s, n, s \in Opens)

\* Fault: the trading switch is not looked at again.
LockUnchecked(s) ==
    /\ at[s] = "waiting" /\ \A r \in Signal : at[r] # "running"
    /\ at' = [at EXCEPT ![s] = "running"] /\ executed' = executed \cup {s}
    /\ UNCHANGED <<switchSeen, settings, count, logged, streak, givenBack>>

\* With the lock an entry looks at the switch once more.
Lock(s) ==
    /\ at[s] = "waiting" /\ \A r \in Signal : at[r] # "running"
    /\ IF s \in Opens /\ ~trading
         THEN Skip(s, count, TRUE)
         ELSE /\ at' = [at EXCEPT ![s] = "running"] /\ executed' = executed \cup {s}
              /\ UNCHANGED <<switchSeen, settings, count, logged, streak, givenBack>>

Ends(s) ==
    /\ at[s] = "running"
    /\ \E status \in {"ok", "error"} : Noted(s, status, count)
    /\ UNCHANGED <<switchSeen, trading, listed, toggles, executed, givenBack>>

\* The owner's switch, the publisher's list, the subscriber's own pause.
Toggle ==
    /\ toggles < MaxToggles /\ toggles' = toggles + 1
    /\ \/ trading' = ~trading /\ UNCHANGED <<listed, enabled>>
       \/ listed' = ~listed /\ UNCHANGED <<trading, enabled>>
       \/ enabled' = ~enabled /\ UNCHANGED <<trading, listed>>
    /\ UNCHANGED <<at, switchSeen, count, logged, streak, executed, givenBack>>

\* A restart drains the signals first; its counts and streaks are gone.
Restart ==
    /\ \A s \in Signal : at[s] \in {"none", "done"}
    /\ count' = NoCount /\ streak' = 0
    /\ UNCHANGED <<at, switchSeen, settings, logged, executed, givenBack>>

Next ==
    \/ \E s \in Signal : Forward(s) \/ Gates(s) \/ Lock(s) \/ Ends(s)
    \/ Toggle \/ Restart

Spec == Init /\ [][Next]_vars
------------------------------------------------------------------------------
(* Properties                                                              *)

\* However entries arrive, wait, fail and are counted again after a restart, no more
\* of a day's run than the subscriber's cap and one for each skipped entry that gave
\* back a slot it never had (note_outcome gives one back for every skip).
CapHeld == Cardinality(executed \cap Opens) <= Cap + givenBack

\* "two entries in one tick cannot both pass a cap of one", "the daily cap costs
\* the order path no SQLite read" (marketplace.py): the cap alone holds.  Not so:
\* what was skipped before the gate, or by the cap itself, makes room for one more.
CapOfTheDay == Cardinality(executed \cap Opens) <= Cap

\* An entry never begins while the trading switch is off, however long ago the
\* signal was accepted.
OffStep ==
    \A s \in Opens : at[s] # "running" /\ at'[s] = "running" => trading
OffMeansOff == [][OffStep]_vars
==============================================================================
