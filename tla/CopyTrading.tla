---------------------------- MODULE CopyTrading ----------------------------
(***************************************************************************)
(* The parts of copy trading under one run of TLC: the orders a follower   *)
(* mirrors (CopyOrders), the positions it is kept in proportion with       *)
(* (CopyPositions) and the runners that do so (CopyManager). A behaviour is*)
(* of one of these modules.                                                *)
(***************************************************************************)
EXTENDS CopyOrders

LOCAL INSTANCE TLC

CONSTANTS
    MaxSize, MaxEvents,                         \* CopyPositions
    Group, Request, MaxEdits, ManagerFaults     \* CopyManager

VARIABLES
    part,       \* the module this behaviour is of
    pLead, moves, peak, events, pWsok, pLook, pending, net, baseline, paused, memory, pos,
    shown, lag, lost, settling, pJob, lockq, saved, flattened, unresolved, pFaults,
    commands, restarted, pUp,
    gList, gSubs, gTable, gTwin, gLock, gJob, gLoose, gEdits, gFaults

\* The leader's orders are the legs of one OCO pair; nothing tells one leg from the other.
Legged == [o \in Order |-> Order \ {o}]
Swaps == Permutations(Order)
\* The leader's orders are read by polls alone.
Polled == {FALSE}

Positions == INSTANCE CopyPositions WITH lead <- pLead, wsok <- pWsok, look <- pLook,
    job <- pJob, faults <- pFaults, up <- pUp

Manager == INSTANCE CopyManager WITH MaxFaults <- ManagerFaults, list <- gList,
    subs <- gSubs, table <- gTable, twin <- gTwin, lock <- gLock, job <- gJob,
    loose <- gLoose, edits <- gEdits, faults <- gFaults

ASSUME TradingAssumption ==
    CopyOrdersAssumption /\ Positions!CopyPositionsAssumption /\ Manager!CopyManagerAssumption

positionVars == <<pLead, moves, peak, events, pWsok, pLook, pending, net, baseline, paused,
    memory, pos, shown, lag, lost, settling, pJob, lockq, saved, flattened, unresolved,
    pFaults, commands, restarted, pUp>>

managerVars == <<gList, gSubs, gTable, gTwin, gLock, gJob, gLoose, gEdits, gFaults>>

\* the variables of a part that is not run
OrdersIdle == lead = 0 /\ sock = 0 /\ wsok = 0 /\ look = 0 /\ known = 0 /\ missed = 0
    /\ twin = 0 /\ held = 0 /\ job = 0 /\ pass = 0 /\ alive = 0 /\ placing = 0
    /\ cancels = 0 /\ edits = 0 /\ orders = 0 /\ stray = 0 /\ beside = 0 /\ doubled = 0
    /\ changes = 0 /\ faults = 0 /\ up = 0
PositionsIdle == pLead = 0 /\ moves = 0 /\ peak = 0 /\ events = 0 /\ pWsok = 0 /\ pLook = 0
    /\ pending = 0 /\ net = 0 /\ baseline = 0 /\ paused = 0 /\ memory = 0 /\ pos = 0
    /\ shown = 0 /\ lag = 0 /\ lost = 0 /\ settling = 0 /\ pJob = 0 /\ lockq = 0
    /\ saved = 0 /\ flattened = 0 /\ unresolved = 0 /\ pFaults = 0 /\ commands = 0
    /\ restarted = 0 /\ pUp = 0
ManagerIdle == gList = 0 /\ gSubs = 0 /\ gTable = 0 /\ gTwin = 0 /\ gLock = 0 /\ gJob = 0
    /\ gLoose = 0 /\ gEdits = 0 /\ gFaults = 0

TradingInit ==
    \/ part = "Orders" /\ Init /\ PositionsIdle /\ ManagerIdle
    \/ part = "Positions" /\ Positions!Init /\ OrdersIdle /\ ManagerIdle
    \/ part = "Manager" /\ Manager!Init /\ OrdersIdle /\ PositionsIdle

RunOrders == part = "Orders" /\ Next /\ UNCHANGED <<part, positionVars, managerVars>>
RunPositions == part = "Positions" /\ Positions!Next /\ UNCHANGED <<part, vars, managerVars>>
RunManager == part = "Manager" /\ Manager!Next /\ UNCHANGED <<part, vars, positionVars>>

Trading ==
    /\ TradingInit
    /\ [][RunOrders \/ RunPositions \/ RunManager]_<<part, vars, positionVars, managerVars>>

(***************************************************************************)
(* Properties                                                              *)
(***************************************************************************)
\* Each part keeps the types of its module.
TypesOK ==
    /\ part = "Orders" => TypeOK
    /\ part = "Positions" => Positions!TypeOK
    /\ part = "Manager" => Manager!TypeOK

\* However polls, events, reconciliations, slow answers, pairs and restarts interleave:
\* a working order at a follower that the order mirror has forgotten, and a second one
\* for the same order of the leader, is one whose answer was lost, one that was placed
\* while an older request was still to be answered, or one of a leg that was placed again
\* with its pair (app/copy/orders.py).
TwinsKnown == part = "Orders" => ForgottenHasCause /\ RepeatedHasCause

\* A follower never holds more than the leader held since it last followed, and a
\* position that is left alone is left alone (app/copy/group_runner.py); and however
\* edits, followers and the loop's syncs interleave, no group is worked on by two
\* runners, which would mirror every change twice (app/copy/manager.py).
InProportion ==
    /\ part = "Positions" => Positions!WithinLeader /\ Positions!BaselineNotHeld
    /\ part = "Manager" => Manager!OneRunner
=============================================================================
