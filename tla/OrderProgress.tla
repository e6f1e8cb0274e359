--------------------------- MODULE OrderProgress ---------------------------
(***************************************************************************)
(* What must eventually happen to orders: every manual order call ends and *)
(* leaves a settled row (ManualOrders), the copies of an order that is gone*)
(* are cancelled (CopyOrders), a follower ends up in the leader's position *)
(* (CopyPositions), and one runner works for each copy group as it is      *)
(* stored (CopyManager). A behaviour is one of one of these modules'.      *)
(***************************************************************************)
EXTENDS Integers, Sequences, FiniteSets, TLC

VARIABLES
    part,       \* the module this behaviour is of
    rows, older, jobs, co, req, reply, gates, wire, verdict, mUp, crashes, sent, taken,
    expired, past, stranded,
    oLead, sock, oWsok, oLook, known, missed, oTwin, held, oJob, pass, alive, placing,
    cancels, oEdits, orders, stray, beside, doubled, changes, oFaults, oUp,
    pLead, moves, peak, events, pWsok, pLook, pending, net, baseline, paused, memory, pos,
    shown, lag, lost, settling, pJob, lockq, saved, flattened, unresolved, pFaults,
    commands, restarted, pUp,
    list, subs, table, gTwin, lock, gJob, loose, gEdits, gFaults

ManualKey == {"k1"}
ManualIntent == {"i1"}
ManualCall == {"c1", "c2"}
OrdersOrder == {"a"}
OrdersPartner == [o \in {"a"} |-> {}]
OrdersSynced == BOOLEAN
ManagerGroup == {"g1"}
ManagerRequest == {"q1", "q2"}

Manual == INSTANCE ManualOrders WITH Key <- ManualKey, Intent <- ManualIntent,
    Call <- ManualCall, MaxCrash <- 1, MaxPrune <- 0, up <- mUp
Orders == INSTANCE CopyOrders WITH Order <- OrdersOrder, Partner <- OrdersPartner,
    MaxVersion <- 1, MaxPlaced <- 1, MaxChanges <- 2, MaxFaults <- 1, Synced <- OrdersSynced, lead <- oLead,
    wsok <- oWsok, look <- oLook, twin <- oTwin, job <- oJob, edits <- oEdits,
    faults <- oFaults, up <- oUp
Positions == INSTANCE CopyPositions WITH MaxSize <- 1, MaxEvents <- 2, lead <- pLead,
    wsok <- pWsok, look <- pLook, job <- pJob, faults <- pFaults, up <- pUp
Manager == INSTANCE CopyManager WITH Group <- ManagerGroup, Request <- ManagerRequest,
    MaxEdits <- 3, MaxFaults <- 1, twin <- gTwin, job <- gJob, edits <- gEdits,
    faults <- gFaults

ManualVars == <<rows, older, jobs, co, req, reply, gates, wire, verdict, mUp, crashes, sent,
    taken, expired, past, stranded>>
OrdersVars == <<oLead, sock, oWsok, oLook, known, missed, oTwin, held, oJob, pass, alive,
    placing, cancels, oEdits, orders, stray, beside, doubled, changes, oFaults, oUp>>
PositionsVars == <<pLead, moves, peak, events, pWsok, pLook, pending, net, baseline, paused,
    memory, pos, shown, lag, lost, settling, pJob, lockq, saved, flattened, unresolved,
    pFaults, commands, restarted, pUp>>
ManagerVars == <<list, subs, table, gTwin, lock, gJob, loose, gEdits, gFaults>>

Parts == {"Manual", "Orders", "Positions", "Manager"}

\* the variables of a part that is not run
ManualIdle == rows = 0 /\ older = 0 /\ jobs = 0 /\ co = 0 /\ req = 0 /\ reply = 0
    /\ gates = 0 /\ wire = 0 /\ verdict = 0 /\ mUp = 0 /\ crashes = 0 /\ sent = 0
    /\ taken = 0 /\ expired = 0 /\ past = 0 /\ stranded = 0
OrdersIdle == oLead = 0 /\ sock = 0 /\ oWsok = 0 /\ oLook = 0 /\ known = 0 /\ missed = 0
    /\ oTwin = 0 /\ held = 0 /\ oJob = 0 /\ pass = 0 /\ alive = 0 /\ placing = 0
    /\ cancels = 0 /\ oEdits = 0 /\ orders = 0 /\ stray = 0
    /\ beside = 0 /\ doubled = 0 /\ changes = 0 /\ oFaults = 0 /\ oUp = 0
PositionsIdle == pLead = 0 /\ moves = 0 /\ peak = 0 /\ events = 0 /\ pWsok = 0 /\ pLook = 0
    /\ pending = 0 /\ net = 0 /\ baseline = 0 /\ paused = 0 /\ memory = 0 /\ pos = 0
    /\ shown = 0 /\ lag = 0 /\ lost = 0 /\ settling = 0 /\ pJob = 0 /\ lockq = 0
    /\ saved = 0 /\ flattened = 0 /\ unresolved = 0 /\ pFaults = 0 /\ commands = 0
    /\ restarted = 0 /\ pUp = 0
ManagerIdle == list = 0 /\ subs = 0 /\ table = 0 /\ gTwin = 0 /\ lock = 0 /\ gJob = 0
    /\ loose = 0 /\ gEdits = 0 /\ gFaults = 0

Init ==
    /\ part \in Parts
    /\ IF part = "Manual" THEN Manual!Init ELSE ManualIdle
    /\ IF part = "Orders" THEN Orders!Init ELSE OrdersIdle
    /\ IF part = "Positions" THEN Positions!Init ELSE PositionsIdle
    /\ IF part = "Manager" THEN Manager!Init ELSE ManagerIdle

RunManual == part = "Manual" /\ Manual!Next /\ UNCHANGED <<part, OrdersVars, PositionsVars,
    ManagerVars>>
RunOrders == part = "Orders" /\ Orders!Next /\ UNCHANGED <<part, ManualVars, PositionsVars,
    ManagerVars>>
RunPositions == part = "Positions" /\ Positions!Next /\ UNCHANGED <<part, ManualVars,
    OrdersVars, ManagerVars>>
RunManager == part = "Manager" /\ Manager!Next /\ UNCHANGED <<part, ManualVars, OrdersVars,
    PositionsVars>>

vars == <<part, ManualVars, OrdersVars, PositionsVars, ManagerVars>>
Next == RunManual \/ RunOrders \/ RunPositions \/ RunManager

Spec == Init /\ [][Next]_vars

\* the fairness each module states for itself
FairSpec ==
    /\ Spec
    /\ WF_ManualVars(part = "Manual" /\ Manual!Restart)
    /\ WF_ManualVars(part = "Manual" /\ \E c \in {"c1", "c2"} : Manual!Program(c))
    /\ WF_OrdersVars(part = "Orders" /\ Orders!PollLooks)
    /\ WF_OrdersVars(part = "Orders" /\ Orders!PlaceAnswered)
    /\ WF_OrdersVars(part = "Orders" /\ Orders!Start)
    /\ WF_OrdersVars(part = "Orders" /\ Orders!ApplyStep)
    /\ WF_OrdersVars(part = "Orders" /\ Orders!ReconcileStep)
    /\ WF_OrdersVars(part = "Orders" /\ Orders!TaskStep("mirror"))
    /\ WF_PositionsVars(part = "Positions" /\ Positions!OnWsMessage)
    /\ SF_PositionsVars(part = "Positions" /\ Positions!PollReads)
    /\ WF_PositionsVars(part = "Positions" /\ Positions!PollWorks)
    /\ WF_PositionsVars(part = "Positions" /\ Positions!Mirror)
    /\ WF_PositionsVars(part = "Positions" /\ Positions!Flattening)
    /\ WF_PositionsVars(part = "Positions" /\ Positions!ReconcileReads)
    /\ WF_PositionsVars(part = "Positions" /\ Positions!ReconcileListed)
    /\ SF_PositionsVars(part = "Positions" /\ Positions!ReconcileChecks)
    /\ SF_PositionsVars(part = "Positions" /\ Positions!Settle)
    /\ WF_PositionsVars(part = "Positions" /\ Positions!Start)
    /\ WF_ManagerVars(part = "Manager" /\ Manager!LoopBegins)
    /\ \A c \in Manager!Caller : WF_ManagerVars(part = "Manager" /\ Manager!Step(c))
    /\ \A g \in ManagerGroup : WF_ManagerVars(part = "Manager" /\ Manager!Placed(g))

(***************************************************************************)
(* Properties                                                              *)
(***************************************************************************)
\* Every part keeps the types of its module.
TypeOK ==
    /\ part = "Manual" => Manual!TypeOK
    /\ part = "Orders" => Orders!TypeOK
    /\ part = "Positions" => Positions!TypeOK
    /\ part = "Manager" => Manager!TypeOK

\* Every call of the manual order inbox returns, and no row stays open except one
\* whose process was cut off from the database (app/execution/service.py).
CallsSettle == <>[](part = "Manual" => Manual!CallsEnded /\ Manual!RowsSettled)

\* Once the leader's order is gone its copies stop working, but for those the order
\* mirror has forgotten, each with its cause, and a follower that is
\* not left alone reaches the leader's position (app/copy/orders.py, group_runner.py).
\* However edits, followers and the loop's syncs interleave, in the end the runners
\* follow the groups that are stored (app/copy/manager.py).
CopiesConverge ==
    /\ <>[](part = "Manager" => Manager!Follows)
    /\ <>[](part = "Orders" => Orders!Cleared)
    /\ \/ <>[](part = "Positions" => Positions!LeftAlone)
       \/ <>[](part = "Positions" => pos = pLead)
=============================================================================
