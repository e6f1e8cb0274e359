-------------------------- MODULE EngineProgress --------------------------
(***************************************************************************)
(* What must eventually happen around the engine: trade locks are passed on*)
(* (TradeLocks), a locked account goes flat (RiskGuard), an entry with its *)
(* stop ends (ProtectiveStop), a login's session and settings come to agree*)
(* (LoginToken), every read of a broker's list ends and is fresh           *)
(* (SharedReads), and the records of tracked trades reach the database     *)
(* (TradeRecords). A behaviour is one of one of these modules'.            *)
(***************************************************************************)
EXTENDS Integers, Sequences, FiniteSets, TLC

CONSTANTS
    \* of TradeLocks
    Hook, TsTrade, Signal, Manual, SignalTarget, KeyOrder, Fallback, Lock, NoLock,
    NoTask,
    MaxDays, MaxTrades, MaxErrors, TimeRule,                     \* of RiskGuard
    MaxTokens, MaxEdits, MaxConnects, MaxForms, MaxCrashes,      \* of LoginToken
    Caller, MaxReads, MaxCancels, Lists,                         \* of SharedReads
    Qty, TpQty, Targets,                                         \* of ProtectiveStop
    MaxChanges, MaxFaults, MaxStops                              \* of TradeRecords

VARIABLES
    part,       \* the module this behaviour is of
    lockOf, holder, queue, lInflight, tracked, lPc, plan, saw, announced,
    day, clockDay, rPhase, pos, openLoss, realized, flying, trades, errors, rec, snap,
    guard, fired, rBlind,
    cfg, cur, sess, renewing, listing, form, writes, minted, edits, connects, forms,
    crashes,
    sInflight, read, reads, at, of, asked, awaited, cancels,
    limit, bPc, status, answer, net, entered, targeted, left, bBlind, closing,
    qPhase, signals, now, known, stored, noted, thread, mark, late, cutOff, descends,
    changes, faults, stops

Locks == INSTANCE TradeLocks WITH Object <- Lock, Target <- SignalTarget,
    inflight <- lInflight, pc <- lPc
Risk == INSTANCE RiskGuard WITH phase <- rPhase, blind <- rBlind
Login == INSTANCE LoginToken
Reads == INSTANCE SharedReads WITH inflight <- sInflight
Bracket == INSTANCE ProtectiveStop WITH pc <- bPc, blind <- bBlind
Records == INSTANCE TradeRecords WITH phase <- qPhase

\* what the constants satisfy
ASSUME LocksAssumption ==
    /\ Locks!TargetAssumption /\ Locks!TaskAssumption /\ Locks!OrderAssumption
    /\ Locks!NoneAssumption
ASSUME RiskAssumption ==
    MaxDays \in Nat /\ MaxTrades \in Nat /\ MaxErrors \in Nat /\ TimeRule \in BOOLEAN
ASSUME LoginAssumption ==
    /\ MaxTokens \in Nat /\ MaxEdits \in Nat /\ MaxConnects \in Nat /\ MaxForms \in Nat
    /\ MaxCrashes \in Nat
ASSUME ReadsAssumption == MaxReads \in Nat /\ MaxCancels \in Nat /\ Lists \in BOOLEAN
ASSUME BracketAssumption == Bracket!QtyAssumption
ASSUME RecordsAssumption == MaxChanges \in Nat /\ MaxFaults \in Nat /\ MaxStops \in Nat

\* for the instance that is checked: which trade a signal is about, and the keys sorted
SomeTarget == [s \in Signal |-> IF s = "s3" THEN "t1" ELSE "h1"]
SomeOrder == <<"h1", Fallback, "t1">>

LocksVars == <<lockOf, holder, queue, lInflight, tracked, lPc, plan, saw, announced>>
RiskVars == <<day, clockDay, rPhase, pos, openLoss, realized, flying, trades, errors, rec,
    snap, guard, fired, rBlind>>
LoginVars == <<cfg, cur, sess, renewing, listing, form, writes, minted, edits, connects,
    forms, crashes>>
ReadsVars == <<sInflight, read, reads, at, of, asked, awaited, cancels>>
BracketVars == <<limit, bPc, status, answer, net, entered, targeted, left, bBlind, closing>>
RecordsVars == <<qPhase, signals, now, known, stored, noted, thread, mark, late, cutOff,
    descends, changes, faults, stops>>

Parts == {"Locks", "Risk", "Login", "Reads", "Bracket", "Records"}

\* the variables of a part that is not run
LocksIdle == lockOf = 0 /\ holder = 0 /\ queue = 0 /\ lInflight = 0 /\ tracked = 0
    /\ lPc = 0 /\ plan = 0 /\ saw = 0 /\ announced = 0
RiskIdle == day = 0 /\ clockDay = 0 /\ rPhase = 0 /\ pos = 0 /\ openLoss = 0 /\ realized = 0
    /\ flying = 0 /\ trades = 0 /\ errors = 0 /\ rec = 0 /\ snap = 0 /\ guard = 0
    /\ fired = 0 /\ rBlind = 0
LoginIdle == cfg = 0 /\ cur = 0 /\ sess = 0 /\ renewing = 0 /\ listing = 0 /\ form = 0
    /\ writes = 0 /\ minted = 0 /\ edits = 0 /\ connects = 0 /\ forms = 0 /\ crashes = 0
ReadsIdle == sInflight = 0 /\ read = 0 /\ reads = 0 /\ at = 0 /\ of = 0 /\ asked = 0
    /\ awaited = 0 /\ cancels = 0
BracketIdle == limit = 0 /\ bPc = 0 /\ status = 0 /\ answer = 0 /\ net = 0 /\ entered = 0
    /\ targeted = 0 /\ left = 0 /\ bBlind = 0 /\ closing = 0
RecordsIdle == qPhase = 0 /\ signals = 0 /\ now = 0 /\ known = 0 /\ stored = 0 /\ noted = 0
    /\ thread = 0 /\ mark = 0 /\ late = 0 /\ cutOff = 0 /\ descends = 0 /\ changes = 0
    /\ faults = 0 /\ stops = 0

Init ==
    /\ part \in Parts
    /\ IF part = "Locks" THEN Locks!Init ELSE LocksIdle
    /\ IF part = "Risk" THEN Risk!Init ELSE RiskIdle
    /\ IF part = "Login" THEN Login!Init ELSE LoginIdle
    /\ IF part = "Reads" THEN Reads!Init ELSE ReadsIdle
    /\ IF part = "Bracket" THEN Bracket!Init ELSE BracketIdle
    /\ IF part = "Records" THEN Records!Init ELSE RecordsIdle

RunLocks == part = "Locks" /\ Locks!Next /\ UNCHANGED <<part, RiskVars, LoginVars,
    ReadsVars, BracketVars, RecordsVars>>
RunRisk == part = "Risk" /\ Risk!Next /\ UNCHANGED <<part, LocksVars, LoginVars, ReadsVars,
    BracketVars, RecordsVars>>
RunLogin == part = "Login" /\ Login!Next /\ UNCHANGED <<part, LocksVars, RiskVars,
    ReadsVars, BracketVars, RecordsVars>>
RunReads == part = "Reads" /\ Reads!Next /\ UNCHANGED <<part, LocksVars, RiskVars,
    LoginVars, BracketVars, RecordsVars>>
RunBracket == part = "Bracket" /\ Bracket!Next /\ UNCHANGED <<part, LocksVars, RiskVars,
    LoginVars, ReadsVars, RecordsVars>>
RunRecords == part = "Records" /\ Records!Next /\ UNCHANGED <<part, LocksVars, RiskVars,
    LoginVars, ReadsVars, BracketVars>>

vars == <<part, LocksVars, RiskVars, LoginVars, ReadsVars, BracketVars, RecordsVars>>
Next == RunLocks \/ RunRisk \/ RunLogin \/ RunReads \/ RunBracket \/ RunRecords

Spec == Init /\ [][Next]_vars

\* the fairness each module states for itself
FairSpec ==
    /\ Spec
    /\ WF_LocksVars(part = "Locks" /\ \E t \in Locks!Task : IF t \in Signal THEN Locks!Run(t) ELSE Locks!Work(t))
    /\ WF_RiskVars(part = "Risk" /\ Risk!Reads)
    /\ WF_RiskVars(part = "Risk" /\ Risk!Checks)
    /\ WF_RiskVars(part = "Risk" /\ Risk!FlattenReads)
    /\ WF_RiskVars(part = "Risk" /\ Risk!Liquidates)
    /\ WF_RiskVars(part = "Risk" /\ Risk!ChecksLocked)
    /\ SF_RiskVars(part = "Risk" /\ Risk!ChecksLocked /\ guard' = "flatten")
    /\ WF_LoginVars(part = "Login" /\ Login!Health)
    /\ WF_LoginVars(part = "Login" /\ Login!WriteToken)
    /\ WF_LoginVars(part = "Login" /\ Login!SaveForm)
    /\ \A o \in Login!Object : WF_LoginVars(part = "Login" /\ Login!Renewed(o))
    /\ \A o \in Login!Object : WF_LoginVars(part = "Login" /\ Login!Listed(o))
    /\ WF_BracketVars(part = "Bracket" /\ Bracket!Handler)
    /\ \A c \in Caller : WF_ReadsVars(part = "Reads" /\ Reads!Progress(c))
    /\ \A w \in Records!Writer : WF_RecordsVars(part = "Records" /\ Records!Works(w))
    /\ WF_RecordsVars(part = "Records" /\ Records!Drained)
    /\ WF_RecordsVars(part = "Records" /\ Records!Start)

(***************************************************************************)
(* Properties                                                              *)
(***************************************************************************)
\* Every part keeps the types of its module.
TypeOK ==
    /\ part = "Locks" => Locks!TypeOK
    /\ part = "Risk" => Risk!TypeOK
    /\ part = "Login" => Login!TypeOK
    /\ part = "Reads" => Reads!TypeOK
    /\ part = "Bracket" => Bracket!TypeOK
    /\ part = "Records" => Records!TypeOK

\* Two signals of one trade never work at the broker together, and a manual close
\* works beside no signal it had to wait for (app/signals.py, app/execution/local.py),
\* although locks are dropped and created anew meanwhile. Nor does an order of the
\* bridge slip into an account whose risk guard is flattening it (app/risk.py).
SignalsExclusive ==
    /\ part = "Locks" => Locks!SignalsExclusive /\ Locks!KnownSignalsEnd
    /\ part = "Risk" => Risk!NothingSlipsIn

\* "Nobody gets stale data" of a list read that callers share, at most two reads are
\* waited for, and only who was cancelled ends cancelled (app/tradovate.py, _coalesced).
\* "A crash loses at most that much; a clean shutdown writes the rest": the records a
\* restart reads back are no older than the last pass without a failure, and after a
\* shutdown that waited for everybody they are the last ones (app/signals.py, app/main.py).
Fresh ==
    /\ part = "Reads" => Reads!Fresh /\ Reads!AtMostTwo
    /\ part = "Records" => Records!RestoresRecent /\ Records!CleanStopKeeps

\* Nobody waits forever: neither for a trade's lock, although holders are cancelled
\* and closes take several, nor for a read whose leader is cancelled, nor for the
\* protection of an entry whose calls fail (app/engine/common.py).
TasksEnd ==
    /\ <>[](part = "Locks" => \A t \in Locks!Task : lPc[t] \in {"idle"} \cup Locks!Ended)
    /\ <>[](part = "Reads" => Reads!NobodyAsks)
    /\ <>[](part = "Bracket" => bPc \in Bracket!Ended)

\* A locked account that holds a position, whether a flatten failed, an order landed
\* after it or its owner traded by hand, is closed in the end (app/risk.py).
LockedGoesFlat == []<>(part = "Risk" /\ Risk!Locked => ~pos)

\* However renewals, pastes, edits, discoveries and saves interleave, a session and
\* the stored settings come to agree on token and accounts (app/tradovate.py); and the
\* records of trades reach their row, failed writes notwithstanding (app/signals.py).
Agreed ==
    /\ <>[](part = "Login" => sess[cur].tok = cfg.tok /\ sess[cur].acc = cfg.acc)
    /\ <>[](part = "Records" => Records!Written)
=============================================================================
