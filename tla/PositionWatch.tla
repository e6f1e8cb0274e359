--------------------------- MODULE PositionWatch ---------------------------
(***************************************************************************)
(* The live P&L poll and the position watch (app/pnl.py, app/watch.py).    *)
(* A tick reads the logins one after the other, first the positions, then  *)
(* the account's cash snapshot, hands both to the risk guard and then      *)
(* compares the positions with the last tick's: a position that appeared,  *)
(* grew, shrank or went is announced, a close with the change of the       *)
(* realised figure as its result.  Automations and alerts hang on these    *)
(* announcements.  The broker moves on at any time, reads fail, the tick   *)
(* can time out, and a restart forgets what was seen.                      *)
(*                                                                         *)
(* One account per login and one contract per account; a position is a     *)
(* net quantity and each closing trade loses one unit of money.            *)
(***************************************************************************)
EXTENDS Integers, FiniteSets

CONSTANTS
    Login,          \* connected logins of the workspace
    MaxQty,         \* largest net position
    MaxMoves,       \* bound on the broker's trades
    MaxFaults,      \* bound on failed reads and timeouts
    MaxRestarts,    \* bound on restarts of the bridge
    MaxDays         \* bound on summary days

VARIABLES
    net, realized,  \* the broker: position and realised result of each login
    moves, faults, restarts, day,
    todo,           \* logins the running tick has yet to read
    phase,          \* "idle", "positions", "snapshot" (of login `at`), "observe"
    at,
    raw,            \* positions_by_login: what the tick read, or "unread" / "failed"
    snap,           \* accounts: the figure of this tick, or "none"
    lastSnap,       \* _last_snap
    positions,      \* _positions
    seeded,         \* _seeded
    figure,         \* _realized: the last figure seen, or "none"
    closedToday,    \* _closed_today (how many)
    summarySent,    \* _summary_sent
    \* what the user was told, and what the broker last answered
    told, base, read, toldLoss, baseLoss

broker == <<net, realized, moves>>
tick == <<todo, phase, at, raw, snap>>
memory == <<positions, seeded, figure, closedToday, summarySent>>
account == <<told, base, read, toldLoss, baseLoss>>
vars == <<broker, tick, memory, account, lastSnap, faults, restarts, day>>

Abs(n) == IF n < 0 THEN -n ELSE n
Unread == [ok |-> FALSE, net |-> 0]
NoSnap == [realized |-> 0, open |-> FALSE, ok |-> FALSE]
NoSnaps == [l \in Login |-> NoSnap]
Zero == [l \in Login |-> 0]

TypeOK ==
    /\ net \in [Login -> -MaxQty..MaxQty] /\ realized \in [Login -> -MaxMoves..0]
    /\ todo \subseteq Login /\ phase \in {"idle", "positions", "snapshot", "observe"}
    /\ at \subseteq Login /\ Cardinality(at) = (IF phase = "snapshot" THEN 1 ELSE 0)
    /\ \A l \in Login : raw[l] \in [ok : BOOLEAN, net : -MaxQty..MaxQty]
    /\ positions \in [Login -> -MaxQty..MaxQty] /\ seeded \in BOOLEAN
    /\ summarySent \in 0..MaxDays /\ closedToday \in Nat

ForgetTick ==
    /\ phase' = "idle" /\ todo' = {} /\ at' = {}
    /\ raw' = [l \in Login |-> Unread] /\ snap' = NoSnaps

Init ==
    /\ net \in [Login -> {0, 1}] /\ realized = Zero /\ moves = 0
    /\ faults = 0 /\ restarts = 0 /\ day = 0
    /\ phase = "idle" /\ todo = {} /\ at = {}
    /\ raw = [l \in Login |-> Unread] /\ snap = NoSnaps
    /\ lastSnap = NoSnaps
    /\ positions = Zero /\ seeded = FALSE /\ figure = NoSnaps /\ closedToday = 0 /\ summarySent = 0
    /\ told = Zero /\ base = Zero /\ read = Zero /\ toldLoss = Zero /\ baseLoss = Zero

(***************************************************************************)
(* The broker: any trade, by the bridge, by a stop or by hand.             *)
(***************************************************************************)
BrokerTrades(l) ==
    /\ moves < MaxMoves /\ moves' = moves + 1
    /\ \E n \in -MaxQty..MaxQty \ {net[l]} :
          /\ net' = [net EXCEPT ![l] = n]
          /\ realized' = [realized EXCEPT ![l] =
                IF Abs(n) < Abs(net[l]) \/ n * net[l] < 0 THEN @ - 1 ELSE @]
    /\ UNCHANGED <<tick, memory, account, lastSnap, faults, restarts, day>>

NextDay ==
    /\ day < MaxDays /\ day' = day + 1
    /\ UNCHANGED <<broker, tick, memory, account, lastSnap, faults, restarts>>

(***************************************************************************)
(* pnl.py _poll_area, refresh_area                                         *)
(***************************************************************************)
\* watch.tick before the broker is asked: the day's summary, crossed off also
\* when nothing was observed yet
Summary ==
    IF day = summarySent THEN UNCHANGED <<summarySent, closedToday>>
    ELSE /\ summarySent' = day
         /\ closedToday' = IF seeded THEN 0 ELSE closedToday

StartTick ==
    /\ phase = "idle" /\ phase' = "positions" /\ todo' = Login /\ Summary
    /\ UNCHANGED <<broker, account, at, raw, snap, lastSnap, positions, seeded, figure, faults, restarts, day>>

\* leader_positions: the login's /position/list, None when it fails
ReadPositions(l) ==
    /\ phase = "positions" /\ l \in todo
    /\ \/ raw' = [raw EXCEPT ![l] = [ok |-> TRUE, net |-> net[l]]] /\ UNCHANGED faults
       \/ faults < MaxFaults /\ faults' = faults + 1 /\ UNCHANGED raw
    /\ at' = {l} /\ phase' = "snapshot"
    /\ UNCHANGED <<broker, memory, account, todo, snap, lastSnap, restarts, day>>

\* a flat account's figure is read again only when the last one was open
Due(l) == ~raw[l].ok \/ raw[l].net # 0 \/ ~lastSnap[l].ok \/ lastSnap[l].open

ReadSnapshot(l) ==
    /\ phase = "snapshot" /\ at = {l}
    /\ \/ /\ ~Due(l) /\ snap' = [snap EXCEPT ![l] = lastSnap[l]] /\ UNCHANGED <<lastSnap, faults>>
       \/ /\ Due(l)
          /\ LET s == [realized |-> realized[l], open |-> net[l] # 0, ok |-> TRUE] IN
                snap' = [snap EXCEPT ![l] = s] /\ lastSnap' = [lastSnap EXCEPT ![l] = s]
          /\ UNCHANGED faults
       \/ /\ Due(l) /\ faults < MaxFaults /\ faults' = faults + 1 /\ UNCHANGED <<snap, lastSnap>>
    /\ todo' = todo \ {l} /\ at' = {} /\ phase' = (IF todo = {l} THEN "observe" ELSE "positions")
    /\ UNCHANGED <<broker, memory, account, raw, restarts, day>>

\* asyncio.wait_for(refresh_area, AREA_TIMEOUT_S)
TickTimesOut ==
    /\ phase # "idle" /\ faults < MaxFaults /\ faults' = faults + 1 /\ ForgetTick
    /\ UNCHANGED <<broker, memory, account, lastSnap, restarts, day>>

(***************************************************************************)
(* watch.py observe_area: the picture of this tick against the last one    *)
(***************************************************************************)
\* fault: a login that cannot be read counts as read
PolledAnyway == Login
Polled == {l \in Login : raw[l].ok}
Current(l) == IF raw[l].ok THEN raw[l].net ELSE 0

\* the realised change since the last figure
Delta(l) == IF snap[l].ok /\ figure[l].ok THEN snap[l].realized - figure[l].realized ELSE 0

\* quantity announced for a login: opened, added, reduced, closed, or both sides of a reversal
Announced(l) ==
    LET old == positions[l]
        new == Current(l)
        sided == l \in Polled /\ old # 0 /\ new # 0
    IN  CASE l \notin Polled -> 0
          [] l \in Polled /\ old = 0 -> new
          [] l \in Polled /\ old # 0 /\ new = 0 -> -old
          [] sided /\ (old > 0) # (new > 0) -> -old + new
          [] sided /\ (old > 0) = (new > 0) -> new - old

Shrinks(l) == l \in Polled /\ (Abs(Current(l)) < Abs(positions[l]) \/ Current(l) * positions[l] < 0)
Closes(l) == l \in Polled /\ positions[l] # 0 /\ (Current(l) = 0 \/ (positions[l] > 0) # (Current(l) > 0))

Observe ==
    /\ phase = "observe"
    /\ positions' = [l \in Login |-> IF l \in Polled THEN Current(l) ELSE positions[l]]
    /\ figure' = [l \in Login |-> IF snap[l].ok THEN snap[l] ELSE figure[l]]
    /\ read' = [l \in Login |-> IF raw[l].ok THEN raw[l].net ELSE read[l]]
    /\ seeded' = TRUE
    /\ IF seeded
       THEN /\ told' = [l \in Login |-> told[l] + Announced(l)]
            /\ toldLoss' = [l \in Login |-> IF Shrinks(l) THEN toldLoss[l] + Delta(l) ELSE toldLoss[l]]
            /\ closedToday' = closedToday + Cardinality({l \in Login : Closes(l)})
            /\ UNCHANGED <<base, baseLoss>>
       ELSE /\ base' = positions'
            /\ baseLoss' = [l \in Login |-> snap[l].realized]
            /\ UNCHANGED <<told, toldLoss, closedToday>>
    /\ ForgetTick
    /\ UNCHANGED <<broker, lastSnap, summarySent, faults, restarts, day>>

Restart ==
    /\ restarts < MaxRestarts /\ restarts' = restarts + 1
    /\ positions' = Zero /\ seeded' = FALSE /\ figure' = NoSnaps /\ closedToday' = 0 /\ summarySent' = 0
    /\ lastSnap' = NoSnaps /\ ForgetTick
    /\ told' = Zero /\ base' = Zero /\ read' = Zero /\ toldLoss' = Zero /\ baseLoss' = realized
    /\ UNCHANGED <<broker, faults, day>>

Next ==
    \/ \E l \in Login : BrokerTrades(l) \/ ReadPositions(l) \/ ReadSnapshot(l)
    \/ NextDay \/ StartTick \/ Observe \/ TickTimesOut \/ Restart

Spec == Init /\ [][Next]_vars

(***************************************************************************)
(* Properties                                                              *)
(***************************************************************************)
\* What was open at the first look plus everything announced since is what the
\* broker last answered, login by login: a login that cannot be read keeps its
\* position (app/watch.py "an unreachable login must not look like everything closed").
Ledger == \A l \in Login : base[l] + told[l] = read[l]

\* app/watch.py:12 "A close is attributed the account's realised-P&L change between
\* the two ticks, which is the broker's own figure": an account announced flat has
\* its losses announced too.
LossIsTold ==
    \A l \in Login : phase = "idle" /\ seeded /\ read[l] = 0 /\ base[l] # 0 /\ faults = 0
                     /\ net[l] = 0 /\ moves = 1 => toldLoss[l] = realized[l] - baseLoss[l]
=============================================================================
