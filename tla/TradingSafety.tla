--------------------------- MODULE TradingSafety ---------------------------
(***************************************************************************)
(* What must never happen between the engine and the brokers: the          *)
(* protection of an entry (ProtectiveStop) and of its updates              *)
(* (ProtectionUpdate), partial and full closes (TsHunterTrade), broker     *)
(* calls whose answer is lost (BrokerCall), the pacing of requests         *)
(* (RequestLane), a login's client (LoginClient) the history written beside*)
(* them (HistoryWriter) and the news lock (NewsLock). A behaviour is one of*)
(* one of these modules'.                                                  *)
(***************************************************************************)
EXTENDS Integers, Sequences, FiniteSets, TLC

CONSTANTS
    Qty, TpQty, Targets,                                         \* of ProtectiveStop
    HunterTrade, HunterQty, Percent, MaxSignals, StopFills,      \* of TsHunterTrade
    MaxUpdates, UpdateFaults,                                    \* of ProtectionUpdate
    Adapters,                                                    \* of BrokerCall
    Urgent, Poll, Burst, Spacing, PollSpacing, Patience, Penalty, MaxClock,
                                                                 \* of RequestLane
    MaxClients, MaxPastes,                                       \* of LoginClient
    MaxRows, QueueMax, BatchMax,                                 \* of HistoryWriter
    Release, NewsTrade, Before, After, MemoLife, Day, MaxTime, MaxEdits, MaxFetches,
    NewsFaults                                                   \* of NewsLock

VARIABLES
    part,       \* the module this behaviour is of
    limit, bPc, status, answer, net, entered, targeted, left, blind, closing,
    tRec, share, stop, tPc, qty, trouble, result, signals, stale,
    pos, order, live, uRec, reports, job, updates, uFaults, lost, uReported, raced,
    adapter, op, at, leg, relogged, told, working, misread, stuck,
    clock, penalty, credit, lastUrgent, lastPoll, lQueue, phase, wake, due, gone, leaks,
    creds, client, state, with, ensure, attempt, closed,
    rows, settings, hQueue, running, idle, worker, hand, txn, batch, disk, hReported,
    dbLock, cfgLock, hLoop, stopping, stopAt, flush, flushed,
    now, mode, calendar, source, memo, trade, open, nLoop, used, sweep, flattened, failed,
    clean, edits, fetches, nFaults

Bracket == INSTANCE ProtectiveStop WITH pc <- bPc
Hunter == INSTANCE TsHunterTrade WITH Trade <- HunterTrade, Qty <- HunterQty, rec <- tRec,
    pc <- tPc
Update == INSTANCE ProtectionUpdate WITH MaxFaults <- UpdateFaults, rec <- uRec,
    faults <- uFaults, reported <- uReported
Call == INSTANCE BrokerCall
Lane == INSTANCE RequestLane WITH queue <- lQueue
Client == INSTANCE LoginClient
History == INSTANCE HistoryWriter WITH queue <- hQueue, reported <- hReported, loop <- hLoop
News == INSTANCE NewsLock WITH Trade <- NewsTrade, MaxFaults <- NewsFaults, loop <- nLoop,
    faults <- nFaults

\* what the constants satisfy
ASSUME BracketAssumption == Bracket!QtyAssumption
ASSUME HunterAssumption == Hunter!QtyAssumption /\ Hunter!PercentAssumption
ASSUME UpdateAssumption == MaxUpdates \in Nat /\ UpdateFaults \in Nat
ASSUME CallAssumption == Adapters \subseteq {"tradovate", "projectx", "rithmic"}
ASSUME LaneAssumption ==
    /\ IsFiniteSet(Urgent) /\ Burst \in Nat \ {0} /\ Spacing \in Nat \ {0} /\ PollSpacing \in Nat
    /\ Patience \in Nat /\ Penalty \subseteq Nat /\ MaxClock \in Nat \ {0} /\ Urgent \cap Poll = {}
ASSUME ClientAssumption == MaxClients \in Nat /\ MaxPastes \in Nat
ASSUME HistoryAssumption == MaxRows \in Nat /\ QueueMax \in Nat /\ BatchMax \in Nat \ {0}
ASSUME NewsAssumption ==
    /\ Before \in Nat /\ After \in Nat /\ MemoLife \in Nat /\ Day \in Nat \ {0}
    /\ MaxTime \in Nat /\ MaxEdits \in Nat /\ MaxFetches \in Nat /\ NewsFaults \in Nat

BracketVars == <<limit, bPc, status, answer, net, entered, targeted, left, blind, closing>>
HunterVars == <<tRec, share, stop, tPc, qty, trouble, result, signals, stale>>
UpdateVars == <<pos, order, live, uRec, reports, job, updates, uFaults, lost, uReported,
    raced>>
CallVars == <<adapter, op, at, leg, relogged, told, working, misread, stuck>>
LaneVars == <<clock, penalty, credit, lastUrgent, lastPoll, lQueue, phase, wake, due, gone,
    leaks>>
ClientVars == <<creds, client, state, with, ensure, attempt, closed>>
HistoryVars == <<rows, settings, hQueue, running, idle, worker, hand, txn, batch, disk,
    hReported, dbLock, cfgLock, hLoop, stopping, stopAt, flush, flushed>>
NewsVars == <<now, mode, calendar, source, memo, trade, open, nLoop, used, sweep, flattened,
    failed, clean, edits, fetches, nFaults>>

Parts == {"Bracket", "Hunter", "Update", "Call", "Lane", "Client", "History", "News"}

\* the variables of a part that is not run
BracketIdle == limit = 0 /\ bPc = 0 /\ status = 0 /\ answer = 0 /\ net = 0 /\ entered = 0
    /\ targeted = 0 /\ left = 0 /\ blind = 0 /\ closing = 0
HunterIdle == tRec = 0 /\ share = 0 /\ stop = 0 /\ tPc = 0 /\ qty = 0 /\ trouble = 0
    /\ result = 0 /\ signals = 0 /\ stale = 0
UpdateIdle == pos = 0 /\ order = 0 /\ live = 0 /\ uRec = 0 /\ reports = 0 /\ job = 0
    /\ updates = 0 /\ uFaults = 0 /\ lost = 0 /\ uReported = 0 /\ raced = 0
CallIdle == adapter = 0 /\ op = 0 /\ at = 0 /\ leg = 0 /\ relogged = 0 /\ told = 0
    /\ working = 0 /\ misread = 0 /\ stuck = 0
LaneIdle == clock = 0 /\ penalty = 0 /\ credit = 0 /\ lastUrgent = 0 /\ lastPoll = 0
    /\ lQueue = 0 /\ phase = 0 /\ wake = 0 /\ due = 0 /\ gone = 0 /\ leaks = 0
ClientIdle == creds = 0 /\ client = 0 /\ state = 0 /\ with = 0 /\ ensure = 0 /\ attempt = 0
    /\ closed = 0
HistoryIdle == rows = 0 /\ settings = 0 /\ hQueue = 0 /\ running = 0 /\ idle = 0
    /\ worker = 0 /\ hand = 0 /\ txn = 0 /\ batch = 0 /\ disk = 0 /\ hReported = 0
    /\ dbLock = 0 /\ cfgLock = 0 /\ hLoop = 0 /\ stopping = 0 /\ stopAt = 0 /\ flush = 0
    /\ flushed = 0
NewsIdle == now = 0 /\ mode = 0 /\ calendar = 0 /\ source = 0 /\ memo = 0 /\ trade = 0
    /\ open = 0 /\ nLoop = 0 /\ used = 0 /\ sweep = 0 /\ flattened = 0 /\ failed = 0
    /\ clean = 0 /\ edits = 0 /\ fetches = 0 /\ nFaults = 0

Init ==
    /\ part \in Parts
    /\ IF part = "Bracket" THEN Bracket!Init ELSE BracketIdle
    /\ IF part = "Hunter" THEN Hunter!Init ELSE HunterIdle
    /\ IF part = "Update" THEN Update!Init ELSE UpdateIdle
    /\ IF part = "Call" THEN Call!Init ELSE CallIdle
    /\ IF part = "Lane" THEN Lane!Init ELSE LaneIdle
    /\ IF part = "Client" THEN Client!Init ELSE ClientIdle
    /\ IF part = "History" THEN History!Init ELSE HistoryIdle
    /\ IF part = "News" THEN News!Init ELSE NewsIdle

RunBracket == part = "Bracket" /\ Bracket!Next /\ UNCHANGED <<part, HunterVars, UpdateVars,
    CallVars, LaneVars, ClientVars, HistoryVars, NewsVars>>
RunHunter == part = "Hunter" /\ Hunter!Next /\ UNCHANGED <<part, BracketVars, UpdateVars,
    CallVars, LaneVars, ClientVars, HistoryVars, NewsVars>>
RunUpdate == part = "Update" /\ Update!Next /\ UNCHANGED <<part, BracketVars, HunterVars,
    CallVars, LaneVars, ClientVars, HistoryVars, NewsVars>>
RunCall == part = "Call" /\ Call!Next /\ UNCHANGED <<part, BracketVars, HunterVars,
    UpdateVars, LaneVars, ClientVars, HistoryVars, NewsVars>>
RunLane == part = "Lane" /\ Lane!Next /\ UNCHANGED <<part, BracketVars, HunterVars,
    UpdateVars, CallVars, ClientVars, HistoryVars, NewsVars>>
RunClient == part = "Client" /\ Client!Next /\ UNCHANGED <<part, BracketVars, HunterVars,
    UpdateVars, CallVars, LaneVars, HistoryVars, NewsVars>>
RunHistory == part = "History" /\ History!Next /\ UNCHANGED <<part, BracketVars, HunterVars,
    UpdateVars, CallVars, LaneVars, ClientVars, NewsVars>>
RunNews == part = "News" /\ News!Next /\ UNCHANGED <<part, BracketVars, HunterVars,
    UpdateVars, CallVars, LaneVars, ClientVars, HistoryVars>>

vars == <<part, BracketVars, HunterVars, UpdateVars, CallVars, LaneVars, ClientVars,
    HistoryVars, NewsVars>>
Next == RunBracket \/ RunHunter \/ RunUpdate \/ RunCall \/ RunLane \/ RunClient
    \/ RunHistory \/ RunNews

Spec == Init /\ [][Next]_vars

(***************************************************************************)
(* Properties                                                              *)
(***************************************************************************)
\* Every part keeps the types of its module.
TypeOK ==
    /\ part = "Bracket" => Bracket!TypeOK
    /\ part = "Hunter" => Hunter!TypeOK
    /\ part = "Update" => Update!TypeOK
    /\ part = "Call" => Call!TypeOK
    /\ part = "Lane" => Lane!TypeOK
    /\ part = "Client" => Client!TypeOK
    /\ part = "History" => History!TypeOK
    /\ part = "News" => News!TypeOK

\* An entry never has two working stops; a trade tracked as protected is; a position is
\* left without a stop, and an order on a closed account, only by what the resolution
\* could not read or cancel, which is told unless nothing had filled; and a resolution that
\* read and cancelled all leaves nothing of the entry (app/engine/common.py).
Protected ==
    part = "Bracket" =>
        /\ Bracket!OneStop /\ Bracket!TrackedIsProtected /\ Bracket!NakedHasCause
        /\ Bracket!FailedClosesEntry /\ Bracket!SurvivorsHaveCause

\* What reports success closed what it was to close: a full close left the trade flat and
\* without a stop, a partial one a record that tells the truth, harm is reported as an
\* error (app/engine/ts_hunter.py), and a news flatten without errors has closed every
\* position that was open when it began (app/news.py).
ClosedMeansFlat ==
    /\ part = "Hunter" => Hunter!ClosedMeansFlat /\ Hunter!RecordMatches /\ Hunter!HarmIsReported
    /\ part = "News" => News!CleanMeansFlat

\* After moves of the stop, target updates and hits that interleave, at rest, with no error
\* logged and no target filled while set_sl_tp was at work: the working stops are for exactly
\* the contracts held; a flat account keeps one only where a target of set_sl_tp's closed
\* the position, and in the record; and every order that may work is in the record, after an
\* error too (app/engine/manage.py, bracket.py).
Covered ==
    part = "Update" => Update!HeldIsCovered /\ Update!FlatStopIsKnown /\ Update!RecordKeepsOrders

\* What a caller is told of its orders is so: accepted ones work, refused ones only where a
\* reset connection or an answer without an id was misread or a first leg was not taken back
\* (app/tradovate.py, projectx.py, rithmic.py).
ToldIsTrue == part = "Call" => Call!ToldIsTrue

\* Orders are sent or refused in time and within the rate, and nothing is sent into a
\* penalty that was seen (app/tradovate.py, the request lanes).
OrdersPrompt == part = "Lane" => Lane!OrdersPrompt /\ Lane!OrdersPaced /\ Lane!PenaltyHeld

\* A session holds at most one of the user's logins and loses sight of none
\* (app/rithmic.py).
OneLogin == part = "Client" => Client!OneLogin

\* When the history's writer has ended, every row handed over is in the database or was
\* reported, in order and once (app/history.py).
NothingLost == part = "History" => History!NothingLost /\ History!RowsInOrder

\* No entry passes the gate once a news window has been open for as long as the memo
\* lives, whatever the calendar and the settings did meanwhile (app/news.py).
GateClosed == [][part = "News" => News!GateStep]_vars
=============================================================================
