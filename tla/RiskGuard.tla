------------------------------ MODULE RiskGuard ------------------------------
(***************************************************************************)
(* The risk guard of one trade account (app/risk.py), driven by the P&L    *)
(* poll (app/pnl.py): a daily loss limit and a flatten time, each of which *)
(* flattens the account (engine/common.py, _flatten_account) and locks it  *)
(* for the trading day; orders of the bridge are refused while it is       *)
(* locked (tradovate.py, place_order), trades made by hand are not.        *)
(*                                                                         *)
(* Losses are counted in units of the limit.  A trading day ends at the    *)
(* roll, a clock day at midnight: between them lies the phase "rolled".    *)
(* What happens between two awaits is one step.                            *)
(***************************************************************************)
EXTENDS Naturals

CONSTANTS
    MaxDays,      \* bound: rolls
    MaxTrades,    \* bound: orders of the bridge and trades by hand
    MaxErrors,    \* bound: flattens the broker refuses or does not answer
    TimeRule      \* the account has a flatten time besides its loss limit

Limit == 1
NoRec == [kind |-> "none", day |-> 0, realized |-> 0, clockDay |-> 0, unlocked |-> FALSE]

VARIABLES
    day,          \* trading day (risk.trading_day)
    clockDay,     \* date of the rule's clock
    phase,        \* "early", "late" (the flatten time is past), "rolled"
    pos,          \* the account holds a position
    openLoss,     \* its open loss
    realized,     \* today's realised loss
    flying,       \* an order the check let through is on its way to the broker
    trades, errors,
    rec,          \* risk_state[spec]
    snap,         \* what the poll has read: [pos, openLoss, realized]
    guard,        \* the poll's step: "idle", "read", "flatten", "liquidate"
    fired,        \* history: kinds that fired on this trading day
    blind         \* history: a check saw the limit crossed and did nothing

vars == <<day, clockDay, phase, pos, openLoss, realized, flying, trades, errors, rec, snap,
          guard, fired, blind>>
dates == <<day, clockDay, phase>>
account == <<pos, openLoss, realized>>
history == <<fired, blind>>

TypeOK ==
    /\ day \in 1 .. MaxDays + 1 /\ clockDay \in 1 .. MaxDays + 1
    /\ phase \in {"early", "late", "rolled"}
    /\ pos \in BOOLEAN /\ openLoss \in 0 .. 1 /\ realized \in Nat
    /\ ~pos => openLoss = 0
    /\ flying \in BOOLEAN /\ trades \in 0 .. MaxTrades /\ errors \in 0 .. MaxErrors
    /\ rec.kind \in {"none", "loss", "time"} /\ rec.day \in 0 .. day
    /\ rec.clockDay \in 0 .. clockDay /\ rec.realized \in Nat /\ rec.unlocked \in BOOLEAN
    /\ snap.pos \in BOOLEAN /\ snap.realized \in Nat /\ snap.openLoss \in 0 .. 1
    /\ guard \in {"idle", "read", "flatten", "liquidate"}
    /\ fired \subseteq {"loss", "time"} /\ blind \in BOOLEAN

Init ==
    /\ day = 1 /\ clockDay = 1 /\ phase = "early"
    /\ pos = FALSE /\ openLoss = 0 /\ realized = 0
    /\ flying = FALSE /\ trades = 0 /\ errors = 0
    /\ rec = NoRec
    /\ snap = [pos |-> FALSE, openLoss |-> 0, realized |-> 0]
    /\ guard = "idle"
    /\ fired = {} /\ blind = FALSE

\* lock_of: today's record, unless it was lifted by hand.
Locked == rec.kind # "none" /\ ~rec.unlocked /\ rec.day = day
------------------------------------------------------------------------------
(* The account, its owner and the clock                                    *)

\* place_order: the check and then the request.
Order ==
    /\ trades < MaxTrades /\ ~flying /\ ~Locked
    /\ flying' = TRUE /\ trades' = trades + 1
    /\ UNCHANGED <<dates, account, errors, rec, snap, guard, history>>

\* The broker executes it: it opens a position or closes the one there is.
Lands ==
    /\ flying
    /\ flying' = FALSE
    /\ pos' = ~pos /\ openLoss' = 0 /\ realized' = realized + openLoss
    /\ UNCHANGED <<dates, trades, errors, rec, snap, guard, history>>

TradeByHand ==
    /\ trades < MaxTrades
    /\ trades' = trades + 1
    /\ pos' = ~pos /\ openLoss' = 0 /\ realized' = realized + openLoss
    /\ UNCHANGED <<dates, flying, errors, rec, snap, guard, history>>

MarketMoves ==
    /\ pos
    /\ openLoss' = 1 - openLoss
    /\ UNCHANGED <<dates, pos, realized, flying, trades, errors, rec, snap, guard, history>>

\* unlock: the record stays.
Unlock ==
    /\ Locked
    /\ rec' = [rec EXCEPT !.unlocked = TRUE]
    /\ UNCHANGED <<dates, account, flying, trades, errors, snap, guard, history>>

FlattenTime ==
    /\ phase = "early"
    /\ phase' = "late"
    /\ UNCHANGED <<day, clockDay, account, flying, trades, errors, rec, snap, guard, history>>

\* 17:00 New York: the broker's daily figures start again.
Roll ==
    /\ phase = "late" /\ day <= MaxDays
    /\ phase' = "rolled" /\ day' = day + 1
    /\ realized' = 0 /\ fired' = {}
    /\ UNCHANGED <<clockDay, pos, openLoss, flying, trades, errors, rec, snap, guard, blind>>

Midnight ==
    /\ phase = "rolled"
    /\ phase' = "early" /\ clockDay' = clockDay + 1
    /\ UNCHANGED <<day, account, flying, trades, errors, rec, snap, guard, history>>
------------------------------------------------------------------------------
(* The poll                                                                *)

\* refresh_area reads the positions and, for accounts that need it, the cash
\* snapshot; a flat account may keep the figures of an earlier tick.
Reads ==
    /\ guard = "idle"
    /\ guard' = "read"
    /\ \/ snap' = [pos |-> pos, openLoss |-> openLoss, realized |-> realized]
       \/ ~pos /\ snap.openLoss = 0 /\ snap' = [snap EXCEPT !.pos = FALSE]
    /\ UNCHANGED <<dates, account, flying, trades, errors, rec, history>>

\* evaluate: the loss limit before the flatten time.
Hit ==
    IF snap.realized + snap.openLoss >= Limit THEN "loss"
    ELSE IF TimeRule /\ phase \in {"late", "rolled"} THEN "time" ELSE "none"

AlreadyFired(kind) ==
    /\ rec.kind = kind
    /\ IF kind = "time" THEN rec.clockDay = clockDay ELSE rec.realized = snap.realized

\* Fault: a locked account is left alone.
ChecksLockedIdly ==
    /\ guard = "read" /\ Locked
    /\ guard' = "idle"
    /\ UNCHANGED <<dates, account, flying, trades, errors, rec, snap, history>>

\* check_area on a locked account: a position that came back is closed again,
\* at most every REFLATTEN_EVERY_S.
ChecksLocked ==
    /\ guard = "read" /\ Locked
    /\ guard' \in IF snap.pos THEN {"flatten", "idle"} ELSE {"idle"}
    /\ UNCHANGED <<dates, account, flying, trades, errors, rec, snap, history>>

\* Fault: the account is locked when it has been flattened.
TriggerUnlocked(kind) == guard' = "flatten" /\ UNCHANGED rec

\* trigger: the record first, then the flatten.
Trigger(kind) ==
    /\ guard' = "flatten"
    /\ rec' = [kind |-> kind, day |-> day, realized |-> snap.realized,
               clockDay |-> clockDay, unlocked |-> FALSE]

\* check_area on an account that is not locked.
Checks ==
    /\ guard = "read" /\ ~Locked
    /\ IF Hit # "none" /\ ~AlreadyFired(Hit)
         THEN Trigger(Hit) /\ fired' = fired \cup {Hit}
         ELSE guard' = "idle" /\ UNCHANGED <<rec, fired>>
    /\ blind' = (blind \/ (Hit = "loss" /\ AlreadyFired("loss") /\ fired = {}
                             /\ snap = [pos |-> pos, openLoss |-> openLoss, realized |-> realized]))
    /\ UNCHANGED <<dates, account, flying, trades, errors, snap>>

\* _flatten_account: the orders are cancelled and the positions read.
FlattenReads ==
    /\ guard = "flatten"
    /\ \/ /\ guard' = (IF pos THEN "liquidate" ELSE "idle")
          /\ UNCHANGED errors
       \/ errors < MaxErrors /\ errors' = errors + 1 /\ guard' = "idle"
    /\ UNCHANGED <<dates, account, flying, trades, rec, snap, history>>

\* The liquidation: the position of that moment is closed, or the broker
\* refuses; a position that is gone already counts as closed.
Liquidates ==
    /\ guard = "liquidate"
    /\ guard' = "idle"
    /\ \/ /\ pos' = FALSE /\ openLoss' = 0 /\ realized' = realized + openLoss
          /\ UNCHANGED errors
       \/ errors < MaxErrors /\ errors' = errors + 1 /\ UNCHANGED account
    /\ UNCHANGED <<dates, flying, trades, rec, snap, history>>

\* The tick's time limit, or the process ends: only the record stays.
TickEnds ==
    /\ guard # "idle" /\ errors < MaxErrors
    /\ errors' = errors + 1
    /\ guard' = "idle"
    /\ UNCHANGED <<dates, account, flying, trades, rec, snap, history>>

Tick == Reads \/ ChecksLocked \/ Checks \/ FlattenReads \/ Liquidates
Next ==
    \/ Tick \/ TickEnds
    \/ Order \/ Lands \/ TradeByHand \/ MarketMoves \/ Unlock
    \/ FlattenTime \/ Roll \/ Midnight

Spec == Init /\ [][Next]_vars

\* The poll goes on and a flatten is due again sometime.
FairSpec ==
    /\ Spec
    /\ WF_vars(Reads) /\ WF_vars(Checks) /\ WF_vars(FlattenReads) /\ WF_vars(Liquidates)
    /\ WF_vars(ChecksLocked)
    /\ SF_vars(ChecksLocked /\ guard' = "flatten")
------------------------------------------------------------------------------
(* Properties                                                              *)

\* "Lock first: from this moment every bridge order is refused, so nothing can
\* slip in while the flatten is under way" (risk.py:254); a lock lifted by hand
\* or by the roll aside.
NothingSlipsIn ==
    guard \in {"flatten", "liquidate"} =>
        rec.kind # "none" /\ (Locked \/ rec.unlocked \/ rec.day < day)

\* A locked account that holds a position, whether a flatten failed, an order
\* landed after it or its owner traded by hand, is closed in the end.
LockedGoesFlat == []<>(Locked => ~pos)

\* "Whenever today's P&L crosses a limit ... the account is flattened and
\* locked" (risk.py:9-12): a current look at a crossed limit on a day on which
\* nothing has fired yet is acted upon.
CrossedIsActedOn == ~blind
==============================================================================
