----------------------------- MODULE CopyOrders -----------------------------
(***************************************************************************)
(* The order mirror of a copy group (app/copy/orders.py): every working    *)
(* order of the leader has a twin at the follower's broker. One follower   *)
(* (followers are independent of one another) and the leader's orders on   *)
(* one contract. Three tasks of the event loop work on the twins: "apply"  *)
(* diffs a look at the leader's orders, "reconcile" compares the twins     *)
(* with the follower's broker, and "mirror" stands for the position mirror *)
(* (and release_followers), which cancels every twin of the contract.      *)
(***************************************************************************)
EXTENDS Naturals, Sequences, FiniteSets

CONSTANTS
    Order,        \* the leader's orders
    Partner,      \* the other leg of an order's OCO pair, or {}
    MaxVersion,   \* bound: versions of a leader order
    MaxPlaced,    \* bound: orders placed at the follower's broker
    Synced,       \* what a runner's socket can be when the runner starts
    MaxChanges,   \* bound: steps of the leader, twins that fill, calls of cancel_all
    MaxFaults     \* bound: requests that fail or lose their answer, stops of the runner

\* what the constants satisfy
CopyOrdersAssumption ==
    /\ Partner \in [Order -> SUBSET Order] /\ \A o \in Order : o \notin Partner[o]
    /\ MaxVersion \in Nat \ {0}
    /\ Synced \subseteq BOOLEAN
    /\ {MaxPlaced, MaxChanges, MaxFaults} \subseteq Nat

VARIABLES
    lead,      \* the leader's orders at the broker
    sock,      \* the same as the socket's entities describe them
    wsok,      \* the socket is synced; this is settled when a runner starts
    look,      \* the poll's look at the leader's orders, waiting for the apply lock
    known,     \* leader_orders: the version of each order, 0 if it is not there
    missed,    \* _rest_missing
    twin,      \* twins: follower order and version, NoTwin if there is none
    held,      \* _unknown: leader orders whose placement's outcome nobody knows
    job,       \* what is left to do for each task
    pass,      \* whether the reconcile reads the list or walks through the twins
    alive,     \* the follower's working orders as the reconcile read them
    placing,   \* the placement that holds the follower's lock
    cancels,   \* cancel requests whose answer is on its way
    edits,     \* modify requests whose answer is on its way
    orders,    \* every order ever placed at the follower's broker
    stray,     \* those nobody could record: their answer was lost
    beside,    \* history: those placed while a list, a modification or a
               \* cancellation that was sent earlier had no answer
    doubled,   \* history: twins whose leader order was placed once more, as the
               \* second leg of a pair, and what was placed then
    changes, faults, up

leaderVars == <<lead, sock, wsok>>
mirrorVars == <<known, missed, twin, held>>
causes == <<stray, beside, doubled>>
brokerVars == <<orders, causes>>
vars == <<leaderVars, look, mirrorVars, job, pass, alive, placing, cancels, edits,
          brokerVars, changes, faults, up>>

Version == 1 .. MaxVersion
Id == 0 .. MaxPlaced
NoTwin == [id |-> 0, version |-> 0]
Task == {"apply", "reconcile", "mirror"}

\* What a look says of an order: its version if it is working and the version
\* has arrived, New if it has not, Moving in a transitional status, or Final.
Absent == 0
New == MaxVersion + 1
Moving == MaxVersion + 2
Final == MaxVersion + 3
View == Absent .. Final

NoLook == [o \in Order |-> Absent]
None == [o \in Order |-> 0]
Idle == [drop |-> {}, make |-> None, edit |-> {}, legs |-> <<>>, ids |-> None]
NotPlacing == [task |-> "nobody", legs |-> <<>>, versions |-> None, first |-> 0, result |-> "none"]

TypeOK ==
    /\ lead \in [Order -> [st : {"none", "working", "moving", "gone"}, version : 0 .. MaxVersion]]
    /\ sock \in [Order -> View]
    /\ wsok \in BOOLEAN
    /\ look \in {<<>>} \cup {<<says>> : says \in [Order -> View]}
    /\ known \in [Order -> 0 .. MaxVersion]
    /\ missed \subseteq Order
    /\ twin \in [Order -> [id : Id, version : 0 .. MaxVersion]]
    /\ held \subseteq Order
    /\ \A t \in Task :
        /\ job[t].drop \subseteq Order
        /\ job[t].make \in [Order -> 0 .. MaxVersion]
        /\ job[t].edit \subseteq Order
        /\ job[t].legs \in {<<>>} \cup {<<o>> : o \in Order} \cup (Order \X Order)
        /\ job[t].ids \in [Order -> Id]
    /\ pass \in {"free", "read", "items"}
    /\ alive \subseteq 1 .. MaxPlaced
    /\ placing.task \in Task \cup {"nobody"}
    /\ placing.result \in {"none", "taken", "refused", "lost"}
    /\ cancels \subseteq [task : Task, order : Order, id : 1 .. MaxPlaced, ok : BOOLEAN]
    /\ edits \subseteq [order : Order, id : 1 .. MaxPlaced, version : Version, ok : BOOLEAN]
    /\ Len(orders) <= MaxPlaced
    /\ \A i \in DOMAIN orders :
        orders[i] \in [order : Order, version : Version, works : BOOLEAN, oco : Id]
    /\ stray \cup beside \cup doubled \subseteq DOMAIN orders
    /\ changes \in 0 .. MaxChanges
    /\ faults \in 0 .. MaxFaults
    /\ up \in BOOLEAN

Init ==
    /\ lead = [o \in Order |-> [st |-> "none", version |-> 0]]
    /\ sock = NoLook
    /\ wsok \in Synced
    /\ look = <<>>
    /\ known = None
    /\ missed = {}
    /\ twin = [o \in Order |-> NoTwin]
    /\ held = {}
    /\ job = [t \in Task |-> Idle]
    /\ pass = "free"
    /\ alive = {}
    /\ placing = NotPlacing
    /\ cancels = {}
    /\ edits = {}
    /\ orders = <<>>
    /\ stray = {} /\ beside = {} /\ doubled = {}
    /\ changes = 0
    /\ faults = 0
    /\ up = TRUE

HasTwin(o) == twin[o].id > 0
Working(i) == orders[i].works
Change == changes < MaxChanges /\ changes' = changes + 1
Fault == faults < MaxFaults /\ faults' = faults + 1

\* What the broker says of a leader order.
Seen(o) ==
    CASE lead[o].st = "none" -> Absent
      [] lead[o].st = "working" -> lead[o].version
      [] lead[o].st = "moving" -> Moving
      [] lead[o].st = "gone" -> Final

-----------------------------------------------------------------------------
(* The leader and its feed                                                 *)

LeaderPlaces(o) ==
    /\ lead[o].st = "none"
    /\ Change
    /\ lead' = [q \in Order |-> IF q \in {o} \cup Partner[o]
                                THEN [st |-> "working", version |-> 1] ELSE lead[q]]

LeaderModifies(o) ==
    \/ /\ lead[o].st = "working"
       /\ lead[o].version < MaxVersion
       /\ Change
       /\ lead' = [lead EXCEPT ![o].st = "moving"]
    \/ /\ lead[o].st = "moving"
       /\ UNCHANGED changes
       /\ lead' = [lead EXCEPT ![o].st = "working", ![o].version = @ + 1]

\* Filled, cancelled or expired; the other leg of its pair goes with it.
LeaderEnds(o) ==
    /\ lead[o].st \in {"working", "moving"}
    /\ Change
    /\ lead' = [q \in Order |-> IF q \in {o} \cup Partner[o]
                                THEN [lead[q] EXCEPT !.st = "gone"] ELSE lead[q]]

Leader ==
    /\ \E o \in Order : LeaderPlaces(o) \/ LeaderModifies(o) \/ LeaderEnds(o)
    /\ UNCHANGED <<sock, wsok, look, mirrorVars, job, pass, alive, placing, cancels, edits,
                   brokerVars, faults, up>>

\* on_entity: the socket's next entity of an order; a new order arrives before
\* its version.
OnEntity(o) ==
    /\ up /\ wsok
    /\ sock[o] # Seen(o)
    /\ sock' = [sock EXCEPT ![o] = IF @ = Absent /\ lead[o].st = "working" THEN New
                                   ELSE Seen(o)]
    /\ UNCHANGED <<lead, wsok, look, mirrorVars, job, pass, alive, placing, cancels, edits,
                   brokerVars, changes, faults, up>>

\* poll: while the socket is synced an order absent from one REST list is kept
\* for another look.
PollLooks ==
    /\ up
    /\ look = <<>>
    /\ \E late \in SUBSET (IF wsok THEN Order \ missed ELSE {}) :
        LET list == [o \in Order |-> IF o \in late THEN Absent ELSE Seen(o)]
            absent == {o \in Order : list[o] = Absent /\ (known[o] > 0 \/ HasTwin(o))}
            unconfirmed == IF wsok THEN absent \ missed ELSE {}
        IN /\ missed' = IF wsok THEN absent ELSE {}
           /\ look' = <<[o \in Order |-> IF o \notin unconfirmed THEN list[o]
                                         ELSE IF known[o] > 0 THEN known[o] ELSE New]>>
    /\ UNCHANGED <<leaderVars, known, twin, held, job, pass, alive, placing, cancels, edits,
                   brokerVars, changes, faults, up>>

-----------------------------------------------------------------------------
(* apply: one diff at a time                                               *)

\* Fault: an order whose version has not arrived, or which is in transition, is taken
\* as it is described.
FreshUnresolved(says) ==
    [o \in Order |-> IF says[o] \in {Absent, Final} THEN 0 ELSE says[o]]

\* The versions apply works with: orders whose version has not arrived and
\* orders in transition keep what is known of them.
Fresh(says) ==
    [o \in Order |-> CASE says[o] \in Version -> says[o]
                       [] says[o] \in {New, Moving} -> known[o]
                       [] OTHER -> 0]

\* Twins whose leader order is no longer working; not those in transition.
Gone(says) ==
    {o \in Order : /\ Fresh(says)[o] = 0
                   /\ says[o] # Moving
                   /\ HasTwin(o) \/ known[o] > 0}

\* A task is through when nothing is left to do and no answer is awaited.
Through(t) ==
    /\ job[t] = Idle
    /\ \A c \in cancels : c.task # t
    /\ t = "apply" => edits = {}
    /\ t = "reconcile" => pass = "free"

Apply(says) ==
    /\ up
    /\ Through("apply")
    /\ LET fresh == Fresh(says)
       IN /\ known' = fresh
          /\ job' = [job EXCEPT !["apply"] =
                [@ EXCEPT !.drop = Gone(says),
                          !.make = [o \in Order |-> IF known[o] = 0 THEN fresh[o] ELSE 0],
                          !.edit = {o \in Order : known[o] > 0 /\ fresh[o] \notin {0, known[o]}}]]
    /\ UNCHANGED <<leaderVars, missed, twin, held, pass, alive, placing, cancels, edits,
                   brokerVars, changes, faults, up>>

ApplyPoll ==
    /\ look # <<>>
    /\ Apply(look[1])
    /\ look' = <<>>

\* apply_soon: what the entities say, however far behind they are.
ApplySoon ==
    /\ wsok
    /\ Apply(sock)
    /\ UNCHANGED look

-----------------------------------------------------------------------------
(* cancel_twins                                                            *)

\* The broker cancels a twin that still works; the other leg stays.
Cancelled(i) == [orders EXCEPT ![i].works = FALSE]

\* Tasks other than apply cancel one twin at a time. A disabled login leaves
\* the twin alone.
CancelSent(t, o) ==
    /\ o \in job[t].drop
    /\ t # "apply" => \A c \in cancels : c.task # t
    /\ job' = [job EXCEPT ![t].drop = @ \ {o}]
    /\ IF ~HasTwin(o)
         THEN UNCHANGED <<cancels, orders, faults>>
         ELSE \/ /\ cancels' = cancels \cup {[task |-> t, order |-> o, id |-> twin[o].id,
                                              ok |-> Working(twin[o].id)]}
                 /\ orders' = Cancelled(twin[o].id)
                 /\ UNCHANGED faults
              \/ /\ Fault
                 /\ cancels' = cancels \cup {[task |-> t, order |-> o, id |-> twin[o].id,
                                              ok |-> FALSE]}
                 /\ orders' \in {orders, Cancelled(twin[o].id)}
              \/ Fault /\ UNCHANGED <<cancels, orders>>
    /\ UNCHANGED <<leaderVars, look, mirrorVars, pass, alive, placing, edits, causes, changes, up>>

\* Fault: a refused cancel forgets the twin without asking the broker.
CancelAnsweredBlindly(c) ==
    /\ c \in cancels
    /\ cancels' = cancels \ {c}
    /\ twin' = [twin EXCEPT ![c.order] = NoTwin]
    /\ UNCHANGED <<leaderVars, look, known, missed, held, job, pass, alive, placing, edits,
                   brokerVars, changes, faults, up>>

\* After a refusal the twin is forgotten only if the broker's list is read and
\* does not have it (_still_working).
CancelAnswered(c) ==
    /\ c \in cancels
    /\ cancels' = cancels \ {c}
    /\ IF c.ok \/ ~Working(c.id)
         THEN twin' = [twin EXCEPT ![c.order] = NoTwin]
         ELSE UNCHANGED twin
    /\ UNCHANGED <<leaderVars, look, known, missed, held, job, pass, alive, placing, edits,
                   brokerVars, changes, faults, up>>

-----------------------------------------------------------------------------
(* _create, _create_for, _place_twin                                       *)

\* The leg a pair is placed with: both are to be made and neither is there.
Other(t, o) == {p \in Partner[o] : job[t].make[p] > 0 /\ ~HasTwin(p) /\ p \notin held}

\* What is checked before the follower's lock is waited for. Nothing is placed
\* when the group is paused, the switch is off, the type is not mirrored or the
\* size is 0; legs of different size are placed one by one.
Consider(t, o) ==
    /\ job[t].drop = {} /\ job[t].legs = <<>>
    /\ \A c \in cancels : c.task # t
    /\ job[t].make[o] > 0
    /\ \/ /\ ~HasTwin(o) /\ o \notin held
          /\ \E legs \in {<<o>>} \cup {<<o, p>> : p \in Other(t, o)} :
                job' = [job EXCEPT ![t].legs = legs]
       \/ job' = [job EXCEPT ![t].make[o] = 0]
    /\ UNCHANGED <<leaderVars, look, mirrorVars, pass, alive, placing, cancels, edits,
                   brokerVars, changes, faults, up>>

Legs(t) == {job[t].legs[k] : k \in DOMAIN job[t].legs}

\* The broker's new orders, numbered in the order of the legs.
Placed(t) ==
    [k \in DOMAIN job[t].legs |->
        [order |-> job[t].legs[k], version |-> job[t].make[job[t].legs[k]], works |-> TRUE,
         oco |-> IF Len(job[t].legs) = 1 THEN 0 ELSE Len(orders) + 3 - k]]

\* Fault: the check for a concurrent pass is left out.
NotNeeded(t) == FALSE

\* Placed by a concurrent pass while this one waited.
Superfluous(t) == HasTwin(job[t].legs[1])

\* A list, a modification or a cancellation has been sent and not been answered.
Unanswered == edits # {} \/ cancels # {} \/ pass # "free"

\* The lock is free: the placement goes out, shielded from a stop. The second leg
\* of a pair is not looked at again (orders.py:451).
Place(t) ==
    /\ job[t].legs # <<>>
    /\ placing.task = "nobody"
    /\ Len(orders) + Len(job[t].legs) <= MaxPlaced
    /\ ~Superfluous(t)
    /\ \E result \in {"taken", "refused", "lost"} :
        /\ IF result = "taken" THEN UNCHANGED faults ELSE Fault
        /\ placing' = [task |-> t, legs |-> job[t].legs, versions |-> job[t].make,
                       first |-> Len(orders) + 1, result |-> result]
        /\ \/ /\ result # "refused"
              /\ orders' = orders \o Placed(t)
              /\ LET new == DOMAIN orders' \ DOMAIN orders
                     again == {o \in Legs(t) \ {job[t].legs[1]} : HasTwin(o)}
                 IN /\ stray' = IF result = "lost" THEN stray \cup new ELSE stray
                    /\ beside' = IF Unanswered THEN beside \cup new ELSE beside
                    /\ doubled' = doubled \cup {twin[o].id : o \in again}
                                           \cup {i \in new : orders'[i].order \in again}
           \/ result # "taken" /\ UNCHANGED brokerVars
    /\ UNCHANGED <<leaderVars, look, mirrorVars, job, pass, alive, cancels, edits, changes, up>>

PlaceSkipped(t) ==
    /\ job[t].legs # <<>>
    /\ placing.task = "nobody"
    /\ Superfluous(t) \/ Len(orders) + Len(job[t].legs) > MaxPlaced
    /\ job' = [job EXCEPT ![t].legs = <<>>,
                          ![t].make = [o \in Order |-> IF o \in Legs(t) THEN 0 ELSE @[o]]]
    /\ UNCHANGED <<leaderVars, look, mirrorVars, pass, alive, placing, cancels, edits,
                   brokerVars, changes, faults, up>>

\* The answer: the twins are recorded, or, when nobody knows, held back.
PlaceAnswered ==
    /\ placing.task # "nobody"
    /\ LET legs == {placing.legs[k] : k \in DOMAIN placing.legs}
           idOf(o) == IF o = placing.legs[1] THEN placing.first ELSE placing.first + 1
       IN /\ twin' = [o \in Order |-> IF placing.result = "taken" /\ o \in legs
                        THEN [id |-> idOf(o), version |-> placing.versions[o]] ELSE twin[o]]
          /\ held' = IF placing.result = "lost" THEN held \cup legs ELSE held
          /\ job' = IF up /\ job[placing.task].legs = placing.legs
                      THEN [job EXCEPT ![placing.task].legs = <<>>,
                              ![placing.task].make = [o \in Order |-> IF o \in legs THEN 0 ELSE @[o]]]
                      ELSE job
    /\ placing' = NotPlacing
    /\ UNCHANGED <<leaderVars, look, known, missed, pass, alive, cancels, edits,
                   brokerVars, changes, faults, up>>

-----------------------------------------------------------------------------
(* _modify, one leader order after another                                 *)

ModifySent(o) ==
    /\ o \in job["apply"].edit
    /\ [job["apply"] EXCEPT !.edit = {}] = Idle
    /\ edits = {} /\ \A c \in cancels : c.task # "apply"
    /\ job' = [job EXCEPT !["apply"].edit = @ \ {o}]
    /\ LET i == twin[o].id
           moved == [orders EXCEPT ![i].version = IF Working(i) THEN known[o] ELSE @]
       IN IF ~HasTwin(o) \/ twin[o].version = known[o]
            THEN UNCHANGED <<orders, edits, faults>>
            ELSE \E ok \in BOOLEAN :
                /\ ok => Working(i)
                /\ IF ok \/ ~Working(i) THEN UNCHANGED faults ELSE Fault
                /\ orders' \in IF ok THEN {moved} ELSE {orders, moved}
                /\ edits' = {[order |-> o, id |-> i, version |-> known[o], ok |-> ok]}
    /\ UNCHANGED <<leaderVars, look, mirrorVars, pass, alive, placing, cancels, causes, changes,
                   up>>

\* The twin's record is written back as it was read before the request.
ModifyAnswered ==
    \E e \in edits :
        /\ edits' = edits \ {e}
        /\ twin' = IF e.ok THEN [twin EXCEPT ![e.order] = [id |-> e.id, version |-> e.version]]
                   ELSE twin
        /\ UNCHANGED <<leaderVars, look, known, missed, held, job, pass, alive, placing, cancels,
                       brokerVars, changes, faults, up>>

-----------------------------------------------------------------------------
(* reconcile, and the other callers of cancel_twins                        *)

\* _follower_working leaves for the broker; what the list says is what the
\* broker knows now, whenever it is answered.
ReconcileReads ==
    /\ up
    /\ Through("reconcile")
    /\ \E o \in Order : HasTwin(o) \/ known[o] > 0
    /\ pass' = "read"
    /\ alive' = {i \in DOMAIN orders : Working(i)}
    /\ UNCHANGED <<leaderVars, look, mirrorVars, job, placing, cancels, edits,
                   brokerVars, changes, faults, up>>

\* What is done before the next await: twins the broker no longer holds are
\* dropped, up to the first whose leader order is gone, which is cancelled; behind
\* the last one, what is missing is made. (A twin found done is made again after
\* DONE_HOLD_S; Consider may leave out any order any number of times.)
Walk(ids) ==
    \E items \in SUBSET {o \in Order : ids[o] > 0} :
        LET done == {o \in items : ids[o] \notin alive}
            orphans == {o \in items \ done : known[o] = 0}
            later == {o \in Order \ items : ids[o] > 0}
        IN /\ Cardinality(orphans) <= 1
           /\ orphans = {} => later = {}
           /\ twin' = [o \in Order |-> IF o \in done THEN NoTwin ELSE twin[o]]
           /\ job' = [job EXCEPT !["reconcile"] =
                IF orphans # {}
                  THEN [@ EXCEPT !.drop = orphans,
                                 !.ids = [o \in Order |-> IF o \in later THEN ids[o] ELSE 0]]
                  ELSE [Idle EXCEPT !.make = [o \in Order |-> IF twin'[o].id > 0 \/ o \in held
                                                      THEN 0 ELSE known[o]]]]
           /\ pass' = IF orphans = {} THEN "free" ELSE "items"
           /\ alive' = IF orphans = {} THEN {} ELSE alive

\* The list is there, or its login failed and the twins are left alone.
ReconcileListed ==
    /\ pass = "read"
    /\ \/ Walk([o \in Order |-> twin[o].id]) /\ UNCHANGED faults
       \/ Walk(None) /\ Fault
    /\ UNCHANGED <<leaderVars, look, known, missed, held, placing, cancels, edits,
                   brokerVars, changes, up>>

ReconcileGoesOn ==
    /\ pass = "items"
    /\ job["reconcile"].drop = {}
    /\ \A c \in cancels : c.task # "reconcile"
    /\ Walk(job["reconcile"].ids)
    /\ UNCHANGED <<leaderVars, look, known, missed, held, placing, cancels, edits,
                   brokerVars, changes, faults, up>>

\* cancel_all: the leader's position changed, or the followers are flattened.
CancelAll ==
    /\ up
    /\ Through("mirror")
    /\ \E o \in Order : HasTwin(o)
    /\ Change
    /\ job' = [job EXCEPT !["mirror"].drop = {o \in Order : HasTwin(o)}]
    /\ UNCHANGED <<leaderVars, look, mirrorVars, pass, alive, placing, cancels, edits,
                   brokerVars, faults, up>>

-----------------------------------------------------------------------------
(* The follower's broker, the database and the life of the runner          *)

\* A twin fills; the broker cancels the other leg of its pair.
TwinFills(i) ==
    /\ i \in DOMAIN orders
    /\ Working(i)
    /\ Change
    /\ orders' = [k \in DOMAIN orders |->
                    [orders[k] EXCEPT !.works = @ /\ k \notin {i, orders[i].oco}]]
    /\ UNCHANGED <<leaderVars, look, mirrorVars, job, pass, alive, placing, cancels, edits,
                   causes, faults, up>>

\* stop(): tasks are cancelled, a placement on its way is waited for.
Stop ==
    /\ up
    /\ Fault
    /\ up' = FALSE
    /\ sock' = NoLook
    /\ look' = <<>>
    /\ UNCHANGED wsok
    /\ known' = None
    /\ missed' = {}
    /\ job' = [t \in Task |-> Idle]
    /\ pass' = "free"
    /\ alive' = {}
    /\ cancels' = {}
    /\ edits' = {}
    /\ UNCHANGED <<lead, twin, held, placing, changes, brokerVars>>

\* load(): the queued writes have landed; a twin the broker no longer holds is
\* dropped, unless its login cannot be read.
Start ==
    /\ ~up
    /\ placing.task = "nobody"
    /\ up' = TRUE
    /\ held' = {}
    /\ \/ /\ twin' = [o \in Order |-> IF HasTwin(o) /\ Working(twin[o].id) THEN twin[o] ELSE NoTwin]
          /\ UNCHANGED faults
       \/ Fault /\ UNCHANGED twin
    /\ wsok' \in Synced
    /\ UNCHANGED <<lead, sock, look, known, missed, job, pass, alive, placing, cancels, edits,
                   brokerVars, changes>>

-----------------------------------------------------------------------------
TaskStep(t) ==
    \/ \E o \in Order : CancelSent(t, o) \/ Consider(t, o)
    \/ \E c \in cancels : c.task = t /\ CancelAnswered(c)
    \/ Place(t) \/ PlaceSkipped(t)

ApplyStep ==
    \/ ApplyPoll
    \/ TaskStep("apply")
    \/ \E o \in Order : ModifySent(o)
    \/ ModifyAnswered

ReconcileStep ==
    \/ ReconcileReads \/ ReconcileListed \/ ReconcileGoesOn
    \/ TaskStep("reconcile")

Environment ==
    \/ Leader \/ ApplySoon \/ CancelAll
    \/ \E o \in Order : OnEntity(o)
    \/ \E i \in 1 .. MaxPlaced : TwinFills(i)
    \/ Stop

Next ==
    \/ ApplyStep \/ ReconcileStep \/ TaskStep("mirror") \/ PollLooks \/ PlaceAnswered \/ Start
    \/ Environment

Spec == Init /\ [][Next]_vars

\* The poll and the reconcile loop come round; every request is answered; a
\* stopped group is started again by the next sync.
FairSpec ==
    /\ Spec
    /\ WF_vars(PollLooks) /\ WF_vars(PlaceAnswered) /\ WF_vars(Start)
    /\ WF_vars(ApplyStep) /\ WF_vars(ReconcileStep) /\ WF_vars(TaskStep("mirror"))

-----------------------------------------------------------------------------
(* Properties                                                              *)

\* Orders nobody recorded, placed beside an open request, or placed twice.
Exposed == stray \cup beside \cup doubled

\* The mirror, which alone cancels it, has this order as a twin, or is about to.
Recorded(i) == twin[orders[i].order].id = i \/ (placing.task # "nobody" /\ i >= placing.first)

\* A working order that the mirror does not know, and a second working order for
\* one leader order, have a cause at the placement: nobody learnt of it (its answer
\* was lost), an older list, modification or cancellation was still to be answered
\* (orders.py:581, 538, 628), or its leader order was the second leg of a pair
\* that already had a twin (orders.py:451).
ForgottenHasCause ==
    \A i \in DOMAIN orders : Working(i) => Recorded(i) \/ i \in Exposed
RepeatedHasCause ==
    \A i, k \in DOMAIN orders :
        i # k /\ orders[i].order = orders[k].order /\ Working(i) /\ Working(k)
            => i \in Exposed \/ k \in Exposed

\* Not so: a leader order has one working twin (orders.py:452, "placed by a
\* concurrent pass while we waited"). The check is for the first leg of a pair only.
OneTwin ==
    \A i, k \in DOMAIN orders :
        Working(i) /\ Working(k) /\ {i, k} \cap stray = {} /\ orders[i].order = orders[k].order
            => i = k

\* Not so: no working twin is forgotten (orders.py:573: "a stray order would sit at
\* the broker"). A list read before a twin was placed drops it (orders.py:628).
NoneForgotten == \A i \in DOMAIN orders \ stray : Working(i) => Recorded(i)

\* A twin whose leader order is gone is cancelled in the end, whatever cancels
\* fail in between, but for what the mirror has forgotten.
Cleared ==
    \A i \in DOMAIN orders :
        lead[orders[i].order].st = "gone" /\ Working(i) => ~Recorded(i) /\ i \in Exposed
OrphansGo == <>[]Cleared
=============================================================================
