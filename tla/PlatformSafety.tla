-------------------------- MODULE PlatformSafety --------------------------
(***************************************************************************)
(* What must never happen on the platform around the trades: marketplace   *)
(* subscriptions (Subscription) and their payments (Payments), the journal *)
(* (TradeJournal) and the position watch (PositionWatch), rules            *)
(* (Automations), backups and updates (Backups), stored settings (Settings)*)
(* and the dates contracts roll on (RollDates). A behaviour is one of one  *)
(* of these modules'.                                                      *)
(***************************************************************************)
EXTENDS Integers, Sequences, FiniteSets, TLC

CONSTANTS
    Entries, TsEntries, Manage, Cap, MaxErrors, MaxToggles,             \* Subscription
    Approval, MaxEvents, MaxPeriods, MaxCheckouts,                      \* Payments
    Brokers, Mark, JournalQty, MaxFills, MaxDay, Overlap, JournalFaults,    \* TradeJournal
    Login, WatchQty, MaxMoves, WatchFaults, WatchRestarts, MaxDays,     \* PositionWatch
    Rule, Cooldown, Retry, MaxTime, MaxRuns, RuleFaults, MaxOpens,      \* Automations
    MaxSnaps, MaxCommits, BackupFaults, MaxDeletes, KeepDaily, KeepWeekly,  \* Backups
    Area, MaxHook, Keep, MaxWrites, StoredFaults, StoredRestarts, MaxRestores,
    MaxAreaChanges,                                                     \* Settings
    Years, Step                                                         \* RollDates

VARIABLES
    part,       \* the module this behaviour is of
    mAt, switchSeen, mTrading, listed, mEnabled, toggles, count, logged, streak, executed,
    givenBack,
    pLive, period, refunded, pNow, sent, row, sub, priced, asking, asked, pOpen, leaving,
    pSeen,
    broker, fills, book, jDay, jStored, rows, jSeen, cursor, jPhase, window, jFaults,
    net, realized, moves, wFaults, wRestarts, wDay, todo, wPhase, wAt, raw, snap, lastSnap,
    positions, seeded, figure, closedToday, summarySent, told, base, read, toldLoss,
    baseLoss,
    event, action, aEnabled, aTrading, locked, aOpen, watched, lastFired, runs, aNow,
    aFaults, opens, started, firedAt, failedAt, echo,
    snaps, files, bIndex, pool, poolKept, look, lookRows, victim, main, wal, kept, marker,
    job, due, point, back, code, deps, up, commits, bFaults, deletes,
    sLive, used, sStored, cache, degraded, hooksGen, areasGen, sIndex, prints, versions,
    lost, writes, sFaults, sRestarts, restores, areaChanges,
    fam, month, year, today

Market == INSTANCE Subscription WITH at <- mAt, trading <- mTrading, enabled <- mEnabled
Paid == INSTANCE Payments WITH live <- pLive, now <- pNow, open <- pOpen, seen <- pSeen
Journal == INSTANCE TradeJournal WITH MaxQty <- JournalQty, MaxFaults <- JournalFaults,
    day <- jDay, stored <- jStored, seen <- jSeen, phase <- jPhase, faults <- jFaults
Watch == INSTANCE PositionWatch WITH MaxQty <- WatchQty, MaxFaults <- WatchFaults,
    MaxRestarts <- WatchRestarts, faults <- wFaults, restarts <- wRestarts, day <- wDay,
    phase <- wPhase, at <- wAt
Rules == INSTANCE Automations WITH MaxFaults <- RuleFaults, enabled <- aEnabled,
    trading <- aTrading, open <- aOpen, now <- aNow, faults <- aFaults
Backup == INSTANCE Backups WITH MaxFaults <- BackupFaults, index <- bIndex,
    faults <- bFaults
Stored == INSTANCE Settings WITH MaxFaults <- StoredFaults, MaxRestarts <- StoredRestarts,
    live <- sLive, stored <- sStored, index <- sIndex, faults <- sFaults,
    restarts <- sRestarts
Dates == INSTANCE RollDates

\* what the constants satisfy
ASSUME MarketAssumption == IsFiniteSet(Market!Signal) /\ Cap \in Nat /\ MaxErrors \in Nat
    /\ MaxToggles \in Nat
ASSUME PaidAssumption == MaxEvents \in Nat /\ MaxPeriods \in Nat \ {0} /\ MaxCheckouts \in Nat
ASSUME JournalAssumption == Overlap \in Nat \ {0} /\ MaxDay \in Nat \ {0} /\ MaxFills \in Nat
ASSUME WatchAssumption == IsFiniteSet(Login) /\ WatchQty \in Nat \ {0} /\ MaxMoves \in Nat
    /\ MaxDays \in Nat
ASSUME RulesAssumption == IsFiniteSet(Rule) /\ Cooldown \in Nat /\ Rules!AutomationsAssumption
    /\ MaxTime \in Nat /\ MaxRuns \in Nat
ASSUME BackupAssumption == Backup!BackupsAssumption /\ MaxSnaps \in Nat
ASSUME StoredAssumption == IsFiniteSet(Area) /\ Keep \in Nat \ {0} /\ MaxHook \in Nat \ {0}
    /\ MaxWrites \in Nat

MarketVars == <<mAt, switchSeen, mTrading, listed, mEnabled, toggles, count, logged, streak,
    executed, givenBack>>
PaidVars == <<pLive, period, refunded, pNow, sent, row, sub, priced, asking, asked, pOpen,
    leaving, pSeen>>
JournalVars == <<broker, fills, book, jDay, jStored, rows, jSeen, cursor, jPhase, window,
    jFaults>>
WatchVars == <<net, realized, moves, wFaults, wRestarts, wDay, todo, wPhase, wAt, raw, snap,
    lastSnap, positions, seeded, figure, closedToday, summarySent, told, base, read,
    toldLoss, baseLoss>>
RulesVars == <<event, action, aEnabled, aTrading, locked, aOpen, watched, lastFired, runs,
    aNow, aFaults, opens, started, firedAt, failedAt, echo>>
BackupVars == <<snaps, files, bIndex, pool, poolKept, look, lookRows, victim, main, wal,
    kept, marker, job, due, point, back, code, deps, up, commits, bFaults, deletes>>
StoredVars == <<sLive, used, sStored, cache, degraded, hooksGen, areasGen, sIndex, prints,
    versions, lost, writes, sFaults, sRestarts, restores, areaChanges>>
DatesVars == <<fam, month, year, today>>

Parts == {"Market", "Paid", "Journal", "Watch", "Rules", "Backup", "Stored", "Dates"}

\* the variables of a part that is not run
MarketIdle == mAt = 0 /\ switchSeen = 0 /\ mTrading = 0 /\ listed = 0 /\ mEnabled = 0
    /\ toggles = 0 /\ count = 0 /\ logged = 0 /\ streak = 0 /\ executed = 0 /\ givenBack = 0
PaidIdle == pLive = 0 /\ period = 0 /\ refunded = 0 /\ pNow = 0 /\ sent = 0 /\ row = 0
    /\ sub = 0 /\ priced = 0 /\ asking = 0 /\ asked = 0 /\ pOpen = 0 /\ leaving = 0
    /\ pSeen = 0
JournalIdle == broker = 0 /\ fills = 0 /\ book = 0 /\ jDay = 0 /\ jStored = 0 /\ rows = 0
    /\ jSeen = 0 /\ cursor = 0 /\ jPhase = 0 /\ window = 0 /\ jFaults = 0
WatchIdle == net = 0 /\ realized = 0 /\ moves = 0 /\ wFaults = 0 /\ wRestarts = 0
    /\ wDay = 0 /\ todo = 0 /\ wPhase = 0 /\ wAt = 0 /\ raw = 0 /\ snap = 0 /\ lastSnap = 0
    /\ positions = 0 /\ seeded = 0 /\ figure = 0 /\ closedToday = 0 /\ summarySent = 0
    /\ told = 0 /\ base = 0 /\ read = 0 /\ toldLoss = 0 /\ baseLoss = 0
RulesIdle == event = 0 /\ action = 0 /\ aEnabled = 0 /\ aTrading = 0 /\ locked = 0
    /\ aOpen = 0 /\ watched = 0 /\ lastFired = 0 /\ runs = 0 /\ aNow = 0 /\ aFaults = 0
    /\ opens = 0 /\ started = 0 /\ firedAt = 0 /\ failedAt = 0 /\ echo = 0
BackupIdle == snaps = 0 /\ files = 0 /\ bIndex = 0 /\ pool = 0 /\ poolKept = 0 /\ look = 0
    /\ lookRows = 0 /\ victim = 0 /\ main = 0 /\ wal = 0 /\ kept = 0 /\ marker = 0
    /\ job = 0 /\ due = 0 /\ point = 0 /\ back = 0 /\ code = 0 /\ deps = 0 /\ up = 0 /\ commits = 0 /\ bFaults = 0
    /\ deletes = 0
StoredIdle == sLive = 0 /\ used = 0 /\ sStored = 0 /\ cache = 0 /\ degraded = 0
    /\ hooksGen = 0 /\ areasGen = 0 /\ sIndex = 0 /\ prints = 0 /\ versions = 0 /\ lost = 0
    /\ writes = 0 /\ sFaults = 0 /\ sRestarts = 0 /\ restores = 0 /\ areaChanges = 0
DatesIdle == fam = 0 /\ month = 0 /\ year = 0 /\ today = 0

Init ==
    /\ part \in Parts
    /\ IF part = "Market" THEN Market!Init ELSE MarketIdle
    /\ IF part = "Paid" THEN Paid!Init ELSE PaidIdle
    /\ IF part = "Journal" THEN Journal!Init ELSE JournalIdle
    /\ IF part = "Watch" THEN Watch!Init ELSE WatchIdle
    /\ IF part = "Rules" THEN Rules!Init ELSE RulesIdle
    /\ IF part = "Backup" THEN Backup!Init ELSE BackupIdle
    /\ IF part = "Stored" THEN Stored!Init ELSE StoredIdle
    /\ IF part = "Dates" THEN Dates!Init ELSE DatesIdle

RunMarket == part = "Market" /\ Market!Next /\ UNCHANGED <<part, PaidVars, JournalVars,
    WatchVars, RulesVars, BackupVars, StoredVars, DatesVars>>
RunPaid == part = "Paid" /\ Paid!Next /\ UNCHANGED <<part, MarketVars, JournalVars,
    WatchVars, RulesVars, BackupVars, StoredVars, DatesVars>>
RunJournal == part = "Journal" /\ Journal!Next /\ UNCHANGED <<part, MarketVars, PaidVars,
    WatchVars, RulesVars, BackupVars, StoredVars, DatesVars>>
RunWatch == part = "Watch" /\ Watch!Next /\ UNCHANGED <<part, MarketVars, PaidVars,
    JournalVars, RulesVars, BackupVars, StoredVars, DatesVars>>
RunRules == part = "Rules" /\ Rules!Next /\ UNCHANGED <<part, MarketVars, PaidVars,
    JournalVars, WatchVars, BackupVars, StoredVars, DatesVars>>
RunBackup == part = "Backup" /\ Backup!Next /\ UNCHANGED <<part, MarketVars, PaidVars,
    JournalVars, WatchVars, RulesVars, StoredVars, DatesVars>>
RunStored == part = "Stored" /\ Stored!Next /\ UNCHANGED <<part, MarketVars, PaidVars,
    JournalVars, WatchVars, RulesVars, BackupVars, DatesVars>>
RunDates == part = "Dates" /\ Dates!Next /\ UNCHANGED <<part, MarketVars, PaidVars,
    JournalVars, WatchVars, RulesVars, BackupVars, StoredVars>>

vars == <<part, MarketVars, PaidVars, JournalVars, WatchVars, RulesVars, BackupVars,
    StoredVars, DatesVars>>
Next == RunMarket \/ RunPaid \/ RunJournal \/ RunWatch \/ RunRules \/ RunBackup \/ RunStored
    \/ RunDates

Spec == Init /\ [][Next]_vars

(***************************************************************************)
(* Properties                                                              *)
(***************************************************************************)
\* Every part keeps the types of its module (those of the calendar are with its proposals).
TypeOK ==
    /\ part = "Market" => Market!TypeOK
    /\ part = "Paid" => Paid!TypeOK
    /\ part = "Journal" => Journal!TypeOK
    /\ part = "Watch" => Watch!TypeOK
    /\ part = "Rules" => Rules!TypeOK
    /\ part = "Backup" => Backup!TypeOK
    /\ part = "Stored" => Stored!TypeOK

\* Of a day's entries no more run than the subscriber's cap and one for each skip that
\* gave back a slot it never had, however they crowd (app/marketplace.py); and signals
\* of a paid listing flow only while its row is paid or, with the session of a second
\* checkout written over it, the last of Stripe's events had paid it, however those are
\* repeated and reordered (app/payments.py).
MarketplaceGates ==
    /\ part = "Market" => Market!CapHeld
    /\ part = "Paid" => Paid!AccessIsPaid

\* A round trip the journal's import crossed off is stored, once, and no half of one is
\* (app/journal.py); and what the position watch has announced adds up to what the
\* broker last answered (app/watch.py).
BooksAreExact ==
    /\ part = "Journal" => Journal!CrossedOffIsStored /\ Journal!CompleteIsExact /\ Journal!StoredOnce
    /\ part = "Watch" => Watch!Ledger

\* The last verified snapshot stays (app/backups.py), a restart is scheduled only of code
\* whose requirements are installed (app/updater.py), an index of webhooks that counts as
\* current is exact and the newest version is what is stored (app/config.py).
StoredIsKept ==
    /\ part = "Backup" => Backup!VerifiedStays /\ Backup!ScheduledRunnable
    /\ part = "Stored" => Stored!IndexExact /\ Stored!NewestIsStored

\* Every contract rolls on the day the exchange's convention names, and what the daily
\* check proposes is a contract that has not rolled itself (app/rollover.py).
ProposalAlive == part = "Dates" => Dates!TypeOK /\ Dates!DatesRight /\ Dates!ProposalAlive

\* What no step does: begin an entry while trading is off, fire a rule again before its
\* pause is over, or change a stored setting beside the one that is saved.
StepsAllowed ==
    [][/\ part = "Market" => Market!OffStep
       /\ part = "Rules" => Rules!PacedStep
       /\ part = "Stored" => Stored!OneKeyStep]_vars
=============================================================================
