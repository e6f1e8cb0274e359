---------------------------- MODULE Automations ----------------------------
(***************************************************************************)
(* The event bus and the rules that act on it (app/events.py,              *)
(* app/automations.py): an event is matched against the workspace's rules, *)
(* the rules that match and are out of their cooldown are reserved at once *)
(* and run one after the other in a task of their own.  An action may take *)
(* long: alerts go out by mail, positions are closed at the broker.  What  *)
(* an action emits itself is kept from the rules by the `_acting` context; *)
(* the closes it causes are announced later, by the position watch.        *)
(*                                                                         *)
(* One account with one position; time counts half cooldowns.              *)
(***************************************************************************)
EXTENDS Integers, Sequences, FiniteSets, SequencesExt

CONSTANTS
    Rule,           \* rules of the workspace
    Cooldown,       \* cooldown_s, at least MIN_COOLDOWN_S
    Retry,          \* RETRY_AFTER_FAILURE_S
    MaxTime, MaxRuns, MaxFaults, MaxOpens

\* what the constants satisfy
AutomationsAssumption == Retry \in 1..Cooldown

Kinds == {"connection.lost", "position.closed"}
Actions == {"notify", "trading_off", "flatten_account", "lock_account"}
Never == -Cooldown

VARIABLES
    event, action, enabled,     \* the rules, as saved
    trading, locked,            \* trading_enabled; the account's lock record
    open, watched,              \* the position; the watch's picture of it
    lastFired,                  \* _last_fired
    runs,                       \* the tasks running rules, oldest first
    now, faults, opens, started,
    firedAt, failedAt,          \* when a rule last fired; when its action last failed
    echo                        \* the close not yet announced was an action's

settings == <<event, action, enabled>>
account == <<open, watched, opens, echo>>
vars == <<settings, trading, locked, account, lastFired, runs, now, faults, started, firedAt, failedAt>>

TypeOK ==
    /\ event \in [Rule -> Kinds] /\ action \in [Rule -> Actions] /\ enabled \in [Rule -> BOOLEAN]
    /\ trading \in BOOLEAN /\ locked \in {"no", "guard", "automation"}
    /\ lastFired \in [Rule -> Never..MaxTime] /\ Len(runs) <= MaxRuns
    /\ \A i \in DOMAIN runs : runs[i].rules \in Seq(Rule) /\ runs[i].acting \in BOOLEAN

Init ==
    /\ event \in [Rule -> Kinds] /\ action \in [Rule -> Actions] /\ enabled = [r \in Rule |-> TRUE]
    /\ trading = TRUE /\ locked = "no"
    /\ open = FALSE /\ watched = FALSE /\ opens = 0 /\ echo = FALSE
    /\ lastFired = [r \in Rule |-> Never] /\ runs = <<>> /\ started = 0
    /\ now = 0 /\ faults = 0
    /\ firedAt = [r \in Rule |-> Never] /\ failedAt = [r \in Rule |-> Never]

(***************************************************************************)
(* events.emit -> _on_event: rules are matched and reserved in one step    *)
(***************************************************************************)
Matches(r, kind) == enabled[r] /\ event[r] = kind
CooldownOk(r) == now - lastFired[r] >= Cooldown
Hits(kind) == {r \in Rule : Matches(r, kind) /\ CooldownOk(r)}

\* fault: the cooldown starts only when the action has run
ReserveLater(hit) == lastFired
Reserve(hit) == [r \in Rule |-> IF r \in hit THEN now ELSE lastFired[r]]

OnEvent(kind) ==
    LET hit == Hits(kind) IN
    IF hit = {} THEN UNCHANGED <<lastFired, runs, started, firedAt>>
    ELSE /\ started < MaxRuns /\ started' = started + 1
         /\ lastFired' = Reserve(hit)
         /\ runs' = Append(runs, [rules |-> SetToSeq(hit), acting |-> FALSE])
         /\ firedAt' = [r \in Rule |-> IF r \in hit THEN now ELSE firedAt[r]]

\* health.py announces a lost login
ConnectionLost ==
    /\ OnEvent("connection.lost")
    /\ UNCHANGED <<settings, trading, locked, account, now, faults, failedAt>>

\* watch.py announces what changed since its last tick
WatchTick ==
    /\ open # watched /\ watched' = open /\ echo' = FALSE
    /\ IF open THEN UNCHANGED <<lastFired, runs, started, firedAt>> ELSE OnEvent("position.closed")
    /\ UNCHANGED <<settings, trading, locked, open, opens, now, faults, failedAt>>

(***************************************************************************)
(* _run_rules: the first rule of a task, then the next                     *)
(***************************************************************************)
Rest(i) == IF Len(runs[i].rules) = 1 THEN RemoveAt(runs, i)
           ELSE [runs EXCEPT ![i] = [rules |-> Tail(@.rules), acting |-> FALSE]]

Charged(r, failed) == [lastFired EXCEPT ![r] = IF failed THEN now - (Cooldown - Retry) ELSE now]

\* the part of an action before its first await
BeginAction(i) ==
    /\ ~runs[i].acting
    /\ LET a == action[Head(runs[i].rules)] IN
          /\ trading' = (trading /\ a # "trading_off")
          /\ locked' = IF a = "lock_account" /\ locked = "no" THEN "automation" ELSE locked
    /\ runs' = [runs EXCEPT ![i].acting = TRUE]
    /\ UNCHANGED <<settings, account, lastFired, now, faults, started, firedAt, failedAt>>

Closes(r) == action[r] \in {"flatten_account", "lock_account"}

\* notify and trading_off: only the alert is awaited, and a lost one is swallowed
AlertSent(i) ==
    /\ runs[i].acting /\ ~Closes(Head(runs[i].rules))
    /\ lastFired' = Charged(Head(runs[i].rules), FALSE) /\ runs' = Rest(i)
    /\ UNCHANGED <<settings, trading, locked, account, now, faults, started, firedAt, failedAt>>

\* _flatten_accounts gathers its errors into the result's text: it never raises
Flattened(i) ==
    /\ runs[i].acting /\ Closes(Head(runs[i].rules))
    /\ \/ open' = FALSE /\ echo' = (echo \/ open) /\ UNCHANGED <<faults, failedAt>>
       \/ /\ faults < MaxFaults /\ faults' = faults + 1 /\ UNCHANGED <<open, echo>>
          /\ failedAt' = [failedAt EXCEPT ![Head(runs[i].rules)] = now]
    /\ lastFired' = Charged(Head(runs[i].rules), FALSE) /\ runs' = Rest(i)
    /\ UNCHANGED <<settings, trading, locked, watched, opens, now, started, firedAt>>

\* config.save_settings raised: the rule is logged as failed and may run sooner
ActionFails(i) ==
    /\ runs[i].acting /\ action[Head(runs[i].rules)] = "trading_off"
    /\ faults < MaxFaults /\ faults' = faults + 1
    /\ lastFired' = Charged(Head(runs[i].rules), TRUE) /\ runs' = Rest(i)
    /\ failedAt' = [failedAt EXCEPT ![Head(runs[i].rules)] = now]
    /\ UNCHANGED <<settings, trading, locked, account, now, started, firedAt>>

(***************************************************************************)
(* The rest of the bridge, the user and the clock                          *)
(***************************************************************************)
Opens ==
    /\ ~open /\ trading /\ locked = "no" /\ opens < MaxOpens
    /\ open' = TRUE /\ opens' = opens + 1 /\ echo' = FALSE
    /\ UNCHANGED <<settings, trading, locked, watched, lastFired, runs, now, faults, started, firedAt, failedAt>>

StopFills ==
    /\ open /\ open' = FALSE
    /\ UNCHANGED <<settings, trading, locked, watched, opens, echo, lastFired, runs, now, faults, started, firedAt, failedAt>>

GuardLocks ==
    /\ locked # "guard" /\ locked' = "guard"
    /\ UNCHANGED <<settings, trading, account, lastFired, runs, now, faults, started, firedAt, failedAt>>

SwitchRule(r) ==
    /\ enabled[r] /\ enabled' = [enabled EXCEPT ![r] = FALSE]
    /\ UNCHANGED <<event, action, trading, locked, account, lastFired, runs, now, faults, started, firedAt, failedAt>>

Tick ==
    /\ now < MaxTime /\ now' = now + 1
    /\ UNCHANGED <<settings, trading, locked, account, lastFired, runs, faults, started, firedAt, failedAt>>

Next ==
    \/ ConnectionLost \/ WatchTick \/ Opens \/ StopFills \/ GuardLocks \/ Tick
    \/ \E r \in Rule : SwitchRule(r)
    \/ \E i \in DOMAIN runs : BeginAction(i) \/ AlertSent(i) \/ Flattened(i) \/ ActionFails(i)

Spec == Init /\ [][Next]_vars

(***************************************************************************)
(* Properties                                                              *)
(***************************************************************************)
Fires(r) == started' > started /\ r \in ToSet(runs'[Len(runs')].rules)

\* However slow its action is and however its events crowd, a rule fires again
\* only a cooldown after it last fired, or a retry after its action failed
\* (app/automations.py: "two events in one tick fire a rule once, not twice").
PacedStep ==
    \A r \in Rule : Fires(r) =>
          \/ now - firedAt[r] >= Cooldown
          \/ failedAt[r] >= firedAt[r] /\ now - failedAt[r] >= Retry
Paced == [][PacedStep]_vars

\* app/automations.py:317 "closes caused by these actions do not trigger rules
\* again": no rule fires on the announcement of a close an action made.
NoEcho == [][~(WatchTick /\ echo /\ started' > started)]_vars

\* app/automations.py:47 "a failed action may try again soon instead of sleeping
\* the whole cooldown".
FailedRetriesSoon ==
    \A r \in Rule : failedAt[r] >= firedAt[r] /\ failedAt[r] >= 0 => lastFired[r] + Cooldown <= failedAt[r] + Retry
=============================================================================
