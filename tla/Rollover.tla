------------------------------ MODULE Rollover ------------------------------
(***************************************************************************)
(* The daily contract check of a workspace (app/rollover.py): it reads the *)
(* settings, asks the broker for exact dates, publishes the warnings,      *)
(* alerts the stages it has not alerted before and writes down which.  The *)
(* health loop runs it until the day is done; the dashboard forces one at  *)
(* any time, beside the loop's, and the user applies a rollover or edits   *)
(* the map while a check waits for its answers.                            *)
(*                                                                         *)
(* Contract c is estimated to roll on day (c - 1) * Period; the broker's   *)
(* exact date is Late days after it.  The map is edited before day MaxDay, *)
(* so that every edit is followed by the check of a new day.               *)
(***************************************************************************)
EXTENDS Integers, FiniteSets

CONSTANTS
    Symbol,             \* mapped TradingView symbols
    MaxContract, Period, Late, WarnDays,
    MaxDay, MaxEdits, MaxFaults, MaxForced, MaxRestarts

Contract == 1..MaxContract
Checker == {"loop", "button"}

VARIABLES
    map, notified,      \* symbol_map, rollover_notified
    banner,             \* rollover_warnings: the contracts warned of
    lastRun,            \* _last_run
    check,              \* the checks under way
    day,
    sent,               \* alerts sent: how often for a contract and stage
    wanted,             \* the map as the user last set it
    edits, faults, forced, restarts

vars == <<map, notified, banner, lastRun, check, day, sent, wanted, edits, faults, forced, restarts>>

Stages == {"upcoming", "expired"}
NoStage == "none"
NoWarnings == [c \in Contract |-> NoStage]
Idle == [step |-> "idle", map |-> [s \in Symbol |-> 1], notified |-> NoWarnings, warnings |-> NoWarnings, today |-> 0]

TypeOK ==
    /\ map \in [Symbol -> Contract] /\ notified \in [Contract -> Stages \cup {NoStage}]
    /\ banner \in [Contract -> Stages \cup {NoStage}] /\ lastRun \in -1..MaxDay
    /\ \A k \in Checker : check[k].step \in {"idle", "dates", "alerted"}

Init ==
    /\ map \in [Symbol -> {1, 2}] /\ wanted = map
    /\ notified = NoWarnings /\ banner = NoWarnings
    /\ lastRun = -1 /\ day = 0
    /\ check = [k \in Checker |-> Idle]
    /\ sent = [c \in Contract |-> [s \in Stages |-> 0]]
    /\ edits = 0 /\ faults = 0 /\ forced = 0 /\ restarts = 0

(***************************************************************************)
(* check_area                                                              *)
(***************************************************************************)
Begins(k, m, n) ==
    /\ check[k].step = "idle"
    /\ check' = [check EXCEPT ![k] = [step |-> "dates", map |-> m, notified |-> n,
                                      warnings |-> NoWarnings, today |-> day]]

LoopBegins ==
    /\ lastRun # day /\ Begins("loop", map, notified)
    /\ UNCHANGED <<map, notified, banner, lastRun, day, sent, wanted, edits, faults, forced, restarts>>

\* ?refresh=1, /check
ButtonBegins ==
    /\ forced < MaxForced /\ forced' = forced + 1 /\ Begins("button", map, notified)
    /\ UNCHANGED <<map, notified, banner, lastRun, day, sent, wanted, edits, faults, restarts>>

\* evaluate, with the exact dates a connected session answered
RollsOn(c, exact) == (c - 1) * Period + (IF exact THEN Late ELSE 0)
Evaluate(m, today, exact) ==
    [c \in Contract |->
        IF ~\E s \in Symbol : m[s] = c THEN NoStage
        ELSE IF RollsOn(c, exact) - today > WarnDays THEN NoStage
        ELSE IF RollsOn(c, exact) < today THEN "expired" ELSE "upcoming"]

\* fault: a contract is alerted once, whatever its stage
FreshContracts(w, known) == {c \in Contract : w[c] # NoStage /\ known[c] = NoStage}
Fresh(w, known) == {c \in Contract : w[c] # NoStage /\ known[c] # w[c]}

\* the answers came: the banner is set, the alert goes out
Alerts(k) ==
    /\ check[k].step = "dates"
    /\ \E exact \in BOOLEAN :
          LET w == Evaluate(check[k].map, check[k].today, exact) IN
          /\ banner' = w
          /\ sent' = [c \in Contract |-> [s \in Stages |->
                IF c \in Fresh(w, check[k].notified) /\ s = w[c] THEN sent[c][s] + 1 ELSE sent[c][s]]]
          /\ check' = [check EXCEPT ![k].step = "alerted", ![k].warnings = w]
    /\ UNCHANGED <<map, notified, lastRun, day, wanted, edits, faults, forced, restarts>>

\* fault: the check saves the settings it read
SavedStale(k) == check[k].map
\* only its own key is saved, over whatever the map is now
Saved(k) == map

\* contracts without a warning are forgotten; nothing new is not saved
Finishes(k) ==
    /\ check[k].step = "alerted"
    /\ \/ /\ check[k].warnings = check[k].notified /\ lastRun' = check[k].today
          /\ UNCHANGED <<notified, map, faults>>
       \/ /\ check[k].warnings # check[k].notified /\ lastRun' = check[k].today
          /\ notified' = check[k].warnings /\ map' = Saved(k) /\ UNCHANGED faults
       \* the settings cannot be saved: the day is not done
       \/ /\ check[k].warnings # check[k].notified /\ faults < MaxFaults /\ faults' = faults + 1
          /\ UNCHANGED <<notified, map, lastRun>>
    /\ check' = [check EXCEPT ![k] = Idle]
    /\ UNCHANGED <<banner, day, sent, wanted, edits, forced, restarts>>

(***************************************************************************)
(* apply, the map editor, time                                             *)
(***************************************************************************)
Maps(s, c) == map' = [map EXCEPT ![s] = c] /\ wanted' = [wanted EXCEPT ![s] = c]

\* the suggested contract, and the check that follows in the same request
Apply(s) ==
    /\ map[s] < MaxContract /\ edits < MaxEdits /\ day < MaxDay /\ edits' = edits + 1
    /\ Maps(s, map[s] + 1) /\ notified' = [notified EXCEPT ![map[s]] = NoStage]
    /\ Begins("button", map', notified')
    /\ UNCHANGED <<banner, lastRun, day, sent, faults, forced, restarts>>

EditMap(s) ==
    /\ edits < MaxEdits /\ day < MaxDay /\ edits' = edits + 1
    /\ \E c \in Contract \ {map[s]} : Maps(s, c)
    /\ UNCHANGED <<notified, banner, lastRun, check, day, sent, faults, forced, restarts>>

NextDay ==
    /\ day < MaxDay /\ day' = day + 1
    /\ UNCHANGED <<map, notified, banner, lastRun, check, sent, wanted, edits, faults, forced, restarts>>

Restart ==
    /\ restarts < MaxRestarts /\ restarts' = restarts + 1
    /\ lastRun' = -1 /\ banner' = NoWarnings
    /\ check' = [k \in Checker |-> Idle]
    /\ UNCHANGED <<map, notified, day, sent, wanted, edits, faults, forced>>

Next ==
    \/ LoopBegins \/ ButtonBegins \/ NextDay \/ Restart
    \/ \E k \in Checker : Alerts(k) \/ Finishes(k)
    \/ \E s \in Symbol : Apply(s) \/ EditMap(s)

Spec == Init /\ [][Next]_vars
Fairness == WF_vars(LoopBegins) /\ WF_vars(NextDay) /\ \A k \in Checker : WF_vars(Alerts(k)) /\ WF_vars(Finishes(k))
FairSpec == Spec /\ Fairness

(***************************************************************************)
(* Properties                                                              *)
(***************************************************************************)
\* However a check and the user's edits interleave, the map is what the user last
\* made it (rollover.check_area reads the settings before its awaits and saves
\* after them).
MapIsUsers == map = wanted

Mapped(c) == \E s \in Symbol : map[s] = c

\* A contract that stays mapped past its roll is alerted as expired, also when it
\* was alerted before, when saves fail and when restarts interrupt the checks.
ExpiryTold ==
    \A c \in Contract :
        []<>(day = MaxDay /\ Mapped(c) /\ RollsOn(c, TRUE) < day => sent[c]["expired"] > 0)

\* app/rollover.py:16 "sends one alert (Discord + email, switch alert_on_rollover) per
\* contract and stage (upcoming, then expired), never repeating the same one".
NeverRepeats == edits = 0 /\ faults = 0 /\ restarts = 0 => \A c \in Contract, s \in Stages : sent[c][s] <= 1
=============================================================================
