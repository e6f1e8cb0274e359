------------------------- MODULE CopyTradingProofs -------------------------
(***************************************************************************)
(* Proofs about copy trading (CopyTrading): the twins of a leader's orders *)
(* at a follower (CopyOrders), a follower's position after the leader's    *)
(* (CopyPositions) and the runners of the groups (CopyManager), for every  *)
(* value of the constants.                                                 *)
(***************************************************************************)
EXTENDS CopyTrading, SequenceTheorems, FiniteSetTheorems, TLAPS
-----------------------------------------------------------------------------
(* The types of the order mirror, also with pairs of orders.          *)
(* Beyond TypeOK: what is being made has a version, what is edited is *)
(* known, a twin has a number the broker gave.                        *)

LegsType == {<<>>} \cup {<<o>> : o \in Order} \cup (Order \X Order)
Versions == [Order -> 0 .. MaxVersion]
JobType == [drop : SUBSET Order, make : Versions, edit : SUBSET Order, legs : LegsType,
            ids : [Order -> Id]]
PlacingType == [task : Task \cup {"nobody"}, legs : LegsType, versions : Versions, first : Nat,
                result : {"none", "taken", "refused", "lost"}]
PlacedType == [order : Order, version : Version, works : BOOLEAN, oco : Id]
CancelType == [task : Task, order : Order, id : 1 .. MaxPlaced, ok : BOOLEAN]
EditType == [order : Order, id : 1 .. MaxPlaced, version : Version, ok : BOOLEAN]
TwinType == [id : Id, version : 0 .. MaxVersion]

FeedTypes ==
    /\ lead \in [Order -> [st : {"none", "working", "moving", "gone"}, version : 0 .. MaxVersion]]
    /\ \A o \in Order : lead[o].st = "moving" => lead[o].version < MaxVersion
    /\ sock \in [Order -> View]
    /\ wsok \in BOOLEAN
    /\ look \in {<<>>} \cup {<<says>> : says \in [Order -> View]}
    /\ known \in Versions
    /\ missed \subseteq Order

JobTypes ==
    /\ job \in [Task -> JobType]
    /\ \A t \in Task : \A k \in DOMAIN job[t].legs : job[t].make[job[t].legs[k]] > 0
    /\ \A o \in job["apply"].edit : known[o] > 0

PassTypes ==
    /\ pass \in {"free", "read", "items"}
    /\ alive \subseteq 1 .. MaxPlaced

TwinTypes ==
    /\ twin \in [Order -> TwinType]
    /\ \A o \in Order : twin[o].id <= Len(orders)
    /\ held \subseteq Order

PlacingTypes ==
    /\ placing \in PlacingType
    /\ placing.task # "nobody" /\ placing.result = "taken" =>
         /\ placing.legs # <<>> /\ placing.first >= 1
         /\ placing.first + Len(placing.legs) = Len(orders) + 1

RequestTypes ==
    /\ cancels \subseteq CancelType /\ edits \subseteq EditType
    /\ \A r \in cancels \cup edits : r.id <= Len(orders)

BrokerTypes ==
    /\ orders \in Seq(PlacedType)
    /\ Len(orders) <= MaxPlaced
    /\ stray \cup beside \cup doubled \subseteq DOMAIN orders

BoundTypes == changes \in 0 .. MaxChanges /\ faults \in 0 .. MaxFaults /\ up \in BOOLEAN

OrdersTypes ==
    /\ FeedTypes /\ JobTypes /\ PassTypes /\ TwinTypes /\ PlacingTypes
    /\ RequestTypes /\ BrokerTypes /\ BoundTypes

LEMMA Sizes ==
    /\ Partner \in [Order -> SUBSET Order] /\ \A o \in Order : o \notin Partner[o]
    /\ MaxVersion \in Nat \ {0} /\ MaxPlaced \in Nat /\ MaxFaults \in Nat
    /\ Synced \subseteq BOOLEAN /\ MaxChanges \in Nat
    /\ MaxSize \in Nat \ {0} /\ MaxEvents \in Nat
BY TradingAssumption DEF CopyOrdersAssumption, Positions!CopyPositionsAssumption

LEMMA TypesGiven == OrdersTypes => TypeOK
<1> SUFFICES ASSUME OrdersTypes PROVE TypeOK
  OBVIOUS
<1>1. FeedTypes /\ JobTypes /\ PassTypes /\ TwinTypes /\ PlacingTypes /\ RequestTypes
      /\ BrokerTypes /\ BoundTypes
  BY DEF OrdersTypes
<1>2. ASSUME NEW t \in Task
      PROVE  /\ job[t].drop \subseteq Order
             /\ job[t].make \in [Order -> 0 .. MaxVersion]
             /\ job[t].edit \subseteq Order
             /\ job[t].legs \in {<<>>} \cup {<<o>> : o \in Order} \cup (Order \X Order)
             /\ job[t].ids \in [Order -> Id]
  BY <1>1 DEF JobTypes, JobType, Versions, LegsType
<1>3. placing.task \in Task \cup {"nobody"} /\ placing.result \in {"none", "taken", "refused", "lost"}
  BY <1>1 DEF PlacingTypes, PlacingType
<1>4. /\ Len(orders) <= MaxPlaced /\ stray \cup beside \cup doubled \subseteq DOMAIN orders
      /\ \A i \in DOMAIN orders :
           orders[i] \in [order : Order, version : Version, works : BOOLEAN, oco : Id]
  <2>1. orders \in Seq(PlacedType) /\ Len(orders) <= MaxPlaced /\ stray \cup beside \cup doubled \subseteq DOMAIN orders
    BY <1>1 DEF BrokerTypes
  <2>2. \A i \in DOMAIN orders : orders[i] \in PlacedType
    BY <2>1
  <2> QED BY <2>1, <2>2 DEF PlacedType
<1>5. twin \in [Order -> [id : Id, version : 0 .. MaxVersion]] /\ held \subseteq Order
  BY <1>1 DEF TwinTypes, TwinType
<1>6. /\ cancels \subseteq [task : Task, order : Order, id : 1 .. MaxPlaced, ok : BOOLEAN]
      /\ edits \subseteq [order : Order, id : 1 .. MaxPlaced, version : Version, ok : BOOLEAN]
  BY <1>1 DEF RequestTypes, CancelType, EditType
<1> QED
  BY <1>1, <1>2, <1>3, <1>4, <1>5, <1>6 DEF TypeOK, FeedTypes, Versions, PassTypes, BoundTypes

LEMMA TypesInit == Init => OrdersTypes
<1> SUFFICES ASSUME Init PROVE OrdersTypes
  OBVIOUS
<1>1. FeedTypes
  BY Sizes DEF Init, FeedTypes, NoLook, None, View, Absent, Final, Versions
<1>2. Idle \in JobType /\ DOMAIN Idle.legs = {} /\ Idle.edit = {}
  BY Sizes DEF Idle, JobType, None, Versions, LegsType, Id
<1>3. JobTypes
  BY <1>2 DEF Init, JobTypes, Task
<1>4. PassTypes
  BY DEF Init, PassTypes
<1>5. orders = <<>> /\ Len(orders) = 0 /\ orders \in Seq(PlacedType)
  BY DEF Init
<1>6. TwinTypes
  BY <1>5, Sizes DEF Init, TwinTypes, TwinType, NoTwin, Id
<1>7. PlacingTypes
  BY Sizes DEF Init, PlacingTypes, PlacingType, NotPlacing, LegsType, Versions, None
<1>8. RequestTypes /\ BrokerTypes /\ BoundTypes
  BY <1>5, Sizes DEF Init, RequestTypes, BrokerTypes, BoundTypes
<1> QED
  BY <1>1, <1>3, <1>4, <1>6, <1>7, <1>8 DEF OrdersTypes

\* A step that leaves a group's variables alone keeps the group's types.
LEMMA TypesStay ==
    /\ FeedTypes /\ UNCHANGED <<lead, sock, wsok, look, known, missed>> => FeedTypes'
    /\ JobTypes /\ UNCHANGED <<job, known>> => JobTypes'
    /\ PassTypes /\ UNCHANGED <<pass, alive>> => PassTypes'
    /\ TwinTypes /\ UNCHANGED <<twin, held, orders>> => TwinTypes'
    /\ PlacingTypes /\ UNCHANGED <<placing, orders>> => PlacingTypes'
    /\ RequestTypes /\ UNCHANGED <<cancels, edits, orders>> => RequestTypes'
    /\ BrokerTypes /\ UNCHANGED <<orders, causes>> => BrokerTypes'
    /\ BoundTypes /\ UNCHANGED <<changes, faults, up>> => BoundTypes'
<1>1. FeedTypes /\ UNCHANGED <<lead, sock, wsok, look, known, missed>> => FeedTypes'
  BY DEF FeedTypes
<1>2. JobTypes /\ UNCHANGED <<job, known>> => JobTypes'
  BY DEF JobTypes
<1>3. PassTypes /\ UNCHANGED <<pass, alive>> => PassTypes'
  BY DEF PassTypes
<1>4. TwinTypes /\ UNCHANGED <<twin, held, orders>> => TwinTypes'
  BY DEF TwinTypes
<1>5. PlacingTypes /\ UNCHANGED <<placing, orders>> => PlacingTypes'
  BY DEF PlacingTypes
<1>6. RequestTypes /\ UNCHANGED <<cancels, edits, orders>> => RequestTypes'
  BY DEF RequestTypes
<1>7. BrokerTypes /\ UNCHANGED <<orders, causes>> => BrokerTypes'
  BY DEF BrokerTypes, causes
<1>8. BoundTypes /\ UNCHANGED <<changes, faults, up>> => BoundTypes'
  BY DEF BoundTypes
<1> QED BY <1>1, <1>2, <1>3, <1>4, <1>5, <1>6, <1>7, <1>8

LEMMA Groups ==
    OrdersTypes <=> /\ FeedTypes /\ JobTypes /\ PassTypes /\ TwinTypes /\ PlacingTypes
                    /\ RequestTypes /\ BrokerTypes /\ BoundTypes
BY DEF OrdersTypes

LEMMA ChangeTypes == BoundTypes /\ Change => changes' \in 0 .. MaxChanges
BY Sizes DEF BoundTypes, Change

LEMMA FaultTypes == BoundTypes /\ Fault => faults' \in 0 .. MaxFaults
BY Sizes DEF BoundTypes, Fault

\* A task's work is replaced by other work of the same type.
LEMMA JobChanges ==
    ASSUME JobTypes, NEW t \in Task, NEW r \in JobType,
           job' = [job EXCEPT ![t] = r],
           \A k \in DOMAIN r.legs : r.make[r.legs[k]] > 0,
           \A o \in job'["apply"].edit : known'[o] > 0
    PROVE  JobTypes'
<1>1. job \in [Task -> JobType] /\ \A u \in Task : \A k \in DOMAIN job[u].legs : job[u].make[job[u].legs[k]] > 0
  BY DEF JobTypes
<1>2. job' \in [Task -> JobType] /\ \A u \in Task : job'[u] = IF u = t THEN r ELSE job[u]
  BY <1>1
<1>3. \A u \in Task : \A k \in DOMAIN job'[u].legs : job'[u].make[job'[u].legs[k]] > 0
  BY <1>1, <1>2
<1> QED BY <1>2, <1>3 DEF JobTypes

\* A changed broker's list of orders.
LEMMA OrdersChange ==
    ASSUME NEW s \in Seq(PlacedType), NEW r, DOMAIN r = DOMAIN s, r = [i \in DOMAIN s |-> r[i]],
           \A i \in DOMAIN s : r[i] \in PlacedType
    PROVE  r \in Seq(PlacedType) /\ Len(r) = Len(s)
<1>1. Len(s) \in Nat /\ DOMAIN s = 1 .. Len(s)
  OBVIOUS
<1>2. r \in [1 .. Len(s) -> PlacedType]
  BY <1>1
<1> QED BY <1>1, <1>2

-----------------------------------------------------------------------------
(* The leader and its feed *)

LEMMA LeaderTypes == OrdersTypes /\ Leader => OrdersTypes'
<1> SUFFICES ASSUME OrdersTypes, Leader PROVE OrdersTypes'
  OBVIOUS
<1>1. /\ lead' \in [Order -> [st : {"none", "working", "moving", "gone"}, version : 0 .. MaxVersion]]
      /\ \A q \in Order : lead'[q].st = "moving" => lead'[q].version < MaxVersion
  <2>1. /\ lead \in [Order -> [st : {"none", "working", "moving", "gone"}, version : 0 .. MaxVersion]]
        /\ \A q \in Order : lead[q].st = "moving" => lead[q].version < MaxVersion
    BY Groups DEF FeedTypes
  <2>2. PICK o \in Order : LeaderPlaces(o) \/ LeaderModifies(o) \/ LeaderEnds(o)
    BY DEF Leader
  <2>3. CASE LeaderPlaces(o)
    BY <2>1, <2>3, Sizes DEF LeaderPlaces
  <2>4. CASE LeaderModifies(o)
    <3>1. CASE /\ lead[o].st = "working" /\ lead' = [lead EXCEPT ![o].st = "moving"]
               /\ lead[o].version < MaxVersion
      BY <2>1, <3>1
    <3>2. CASE /\ lead[o].st = "moving"
               /\ lead' = [lead EXCEPT ![o].st = "working", ![o].version = @ + 1]
      <4>1. lead[o].version + 1 \in 0 .. MaxVersion
        BY <2>1, <3>2, Sizes
      <4> QED BY <2>1, <3>2, <4>1, Sizes
    <3> QED BY <2>4, <3>1, <3>2 DEF LeaderModifies
  <2>5. CASE LeaderEnds(o)
    BY <2>1, <2>5, Sizes DEF LeaderEnds
  <2> QED BY <2>2, <2>3, <2>4, <2>5
<1>2. UNCHANGED <<sock, wsok, look, mirrorVars, job, pass, alive, placing, cancels, edits, brokerVars, faults, up>>
  BY DEF Leader
<1>2a. changes' = changes \/ Change
  BY DEF Leader, LeaderPlaces, LeaderModifies, LeaderEnds
<1>2b. BoundTypes'
  BY <1>2, <1>2a, ChangeTypes, Groups DEF BoundTypes
<1>3. FeedTypes'
  BY <1>1, <1>2, Groups DEF FeedTypes, mirrorVars
<1> QED
  BY <1>2, <1>2b, <1>3, TypesStay DEF mirrorVars, brokerVars, OrdersTypes

LEMMA Sights == /\ Absent \in View /\ New \in View /\ Moving \in View /\ Final \in View
                /\ \A v \in 0 .. MaxVersion : v \in View
BY Sizes DEF Absent, New, Moving, Final, View

LEMMA SeenTypes == ASSUME FeedTypes, NEW o \in Order PROVE Seen(o) \in View
<1>1. lead[o] \in [st : {"none", "working", "moving", "gone"}, version : 0 .. MaxVersion]
  BY DEF FeedTypes
<1>2. lead[o].st \in {"none", "working", "moving", "gone"} /\ lead[o].version \in 0 .. MaxVersion
  BY <1>1
<1> QED BY <1>2, Sights DEF Seen

LEMMA OnEntityTypes == \A o \in Order : OrdersTypes /\ OnEntity(o) => OrdersTypes'
<1> SUFFICES ASSUME NEW o \in Order, OrdersTypes, OnEntity(o) PROVE OrdersTypes'
  OBVIOUS
<1>1. UNCHANGED <<lead, wsok, look, mirrorVars, job, pass, alive, placing, cancels, edits, brokerVars, changes, faults, up>>
  BY DEF OnEntity
<1>2. Seen(o) \in View
  BY SeenTypes, Groups
<1>3. sock' \in [Order -> View]
  BY <1>2, Sights, Groups DEF OnEntity, FeedTypes
<1>4. FeedTypes'
  BY <1>1, <1>3, Groups DEF FeedTypes, mirrorVars
<1> QED
  BY <1>1, <1>4, TypesStay DEF mirrorVars, brokerVars, OrdersTypes

LEMMA PollTypes == OrdersTypes /\ PollLooks => OrdersTypes'
<1> SUFFICES ASSUME OrdersTypes, PollLooks PROVE OrdersTypes'
  OBVIOUS
<1>1. UNCHANGED <<lead, sock, wsok, known, twin, held, job, pass, alive, placing, cancels, edits, brokerVars, changes, faults, up>>
  BY DEF PollLooks, leaderVars
<1>2. FeedTypes
  BY Groups
<1>3. \A o \in Order : Seen(o) \in View /\ known[o] \in View
  BY <1>2, SeenTypes, Sights DEF FeedTypes, Versions
<1>4. PICK late \in SUBSET (IF wsok THEN Order \ missed ELSE {}) :
        LET list == [o \in Order |-> IF o \in late THEN Absent ELSE Seen(o)]
            absent == {o \in Order : list[o] = Absent /\ (known[o] > 0 \/ HasTwin(o))}
            unconfirmed == IF wsok THEN absent \ missed ELSE {}
        IN /\ missed' = IF wsok THEN absent ELSE {}
           /\ look' = <<[o \in Order |-> IF o \notin unconfirmed THEN list[o]
                                         ELSE IF known[o] > 0 THEN known[o] ELSE New]>>
  BY Zenon DEF PollLooks
<1> DEFINE list == [o \in Order |-> IF o \in late THEN Absent ELSE Seen(o)]
           absent == {o \in Order : list[o] = Absent /\ (known[o] > 0 \/ HasTwin(o))}
           unconfirmed == IF wsok THEN absent \ missed ELSE {}
           says == [o \in Order |-> IF o \notin unconfirmed THEN list[o]
                                    ELSE IF known[o] > 0 THEN known[o] ELSE New]
<1>5. missed' = (IF wsok THEN absent ELSE {}) /\ look' = <<says>>
  BY <1>4, Zenon
<1>6. list \in [Order -> View]
  BY <1>3, Sights
<1>7. absent \subseteq Order
  OBVIOUS
<1> HIDE DEF list, absent, unconfirmed
<1>8. says \in [Order -> View]
  BY <1>3, <1>6, Sights
<1> HIDE DEF says
<1>9. missed' \subseteq Order
  BY <1>5, <1>7
<1>10. FeedTypes'
  BY <1>1, <1>2, <1>5, <1>8, <1>9 DEF FeedTypes
<1> QED
  BY <1>1, <1>10, TypesStay DEF brokerVars, OrdersTypes

-----------------------------------------------------------------------------
(* apply *)

LEMMA FreshTypes == ASSUME FeedTypes, NEW says \in [Order -> View] PROVE Fresh(says) \in Versions
<1>1. ASSUME NEW o \in Order
      PROVE  (CASE says[o] \in Version -> says[o]
                [] says[o] \in {New, Moving} -> known[o]
                [] OTHER -> 0) \in 0 .. MaxVersion
  <2>1. known[o] \in 0 .. MaxVersion
    BY DEF FeedTypes, Versions
  <2>2. \A v \in Version : v \in 0 .. MaxVersion /\ v # New /\ v # Moving
    BY Sizes DEF Version, New, Moving
  <2>3. 0 \in 0 .. MaxVersion
    BY Sizes
  <2> QED BY <2>1, <2>2, <2>3
<1> QED BY <1>1 DEF Fresh, Versions

LEMMA ApplyTypes ==
    ASSUME OrdersTypes, NEW says \in [Order -> View], Apply(says),
           look' \in {<<>>, look}
    PROVE  OrdersTypes'
<1> DEFINE fresh == Fresh(says)
           changed == {o \in Order : known[o] > 0 /\ fresh[o] \notin {0, known[o]}}
           made == [o \in Order |-> IF known[o] = 0 THEN fresh[o] ELSE 0]
           r == [job["apply"] EXCEPT !.drop = Gone(says), !.make = made, !.edit = changed]
<1>1. /\ job["apply"] = Idle /\ known' = fresh
      /\ job' = [job EXCEPT !["apply"] = r]
      /\ UNCHANGED <<lead, sock, wsok, missed, twin, held, pass, alive, placing, cancels, edits, brokerVars, changes, faults, up>>
  BY DEF Apply, Through, leaderVars
<1>2. FeedTypes /\ JobTypes
  BY Groups
<1>3. fresh \in Versions /\ known \in Versions
  BY <1>2, FreshTypes DEF FeedTypes
<1> HIDE DEF fresh
<1>4. made \in Versions /\ changed \subseteq Order /\ \A o \in changed : fresh[o] > 0
  BY <1>3, Sizes DEF Versions
<1>5. Gone(says) \subseteq Order
  BY DEF Gone
<1> HIDE DEF made, changed, r
<1>6. job["apply"] \in JobType
  BY <1>2 DEF JobTypes, Task
<1>6a. job["apply"].legs = <<>>
  BY <1>1 DEF Idle
<1>7. r \in JobType /\ r.legs = <<>> /\ r.edit = changed
  BY <1>4, <1>5, <1>6, <1>6a DEF JobType, r
<1>7a. \A k \in DOMAIN r.legs : r.make[r.legs[k]] > 0
  BY <1>7
<1>8. job'["apply"] = r
  BY <1>1, <1>2 DEF JobTypes, Task
<1>9. \A o \in job'["apply"].edit : known'[o] > 0
  BY <1>1, <1>4, <1>7, <1>8
<1>10. JobTypes'
  <2>1. "apply" \in Task
    BY DEF Task
  <2> QED BY <1>1, <1>2, <1>7, <1>7a, <1>9, <2>1, JobChanges
<1>11. look' \in {<<>>} \cup {<<f>> : f \in [Order -> View]}
  BY <1>2 DEF FeedTypes
<1>12. FeedTypes'
  BY <1>1, <1>2, <1>3, <1>11 DEF FeedTypes
<1> QED
  BY <1>1, <1>10, <1>12, TypesStay DEF brokerVars, OrdersTypes

LEMMA ApplyPollTypes == OrdersTypes /\ ApplyPoll => OrdersTypes'
<1> SUFFICES ASSUME OrdersTypes, ApplyPoll PROVE OrdersTypes'
  OBVIOUS
<1>1. look # <<>> /\ look \in {<<>>} \cup {<<f>> : f \in [Order -> View]} /\ Apply(look[1]) /\ look' = <<>>
  BY Groups DEF ApplyPoll, FeedTypes
<1>2. look[1] \in [Order -> View]
  BY <1>1
<1> QED BY <1>1, <1>2, ApplyTypes

LEMMA ApplySoonTypes == OrdersTypes /\ ApplySoon => OrdersTypes'
<1> SUFFICES ASSUME OrdersTypes, ApplySoon PROVE OrdersTypes'
  OBVIOUS
<1>1. sock \in [Order -> View] /\ Apply(sock) /\ look' = look
  BY Groups DEF ApplySoon, FeedTypes
<1> QED BY <1>1, ApplyTypes

-----------------------------------------------------------------------------
(* cancel_twins *)

LEMMA CancelledTypes ==
    ASSUME BrokerTypes, NEW i
    PROVE  Cancelled(i) \in Seq(PlacedType) /\ Len(Cancelled(i)) = Len(orders)
<1>1. orders \in Seq(PlacedType) /\ Cancelled(i) = [orders EXCEPT ![i].works = FALSE]
  BY DEF BrokerTypes, Cancelled
<1>2. \A k \in DOMAIN orders : orders[k] \in PlacedType
  BY <1>1
<1>3. DOMAIN Cancelled(i) = DOMAIN orders /\ Cancelled(i) = [k \in DOMAIN orders |-> Cancelled(i)[k]]
  BY <1>1
<1>4. \A k \in DOMAIN orders : Cancelled(i)[k] \in PlacedType
  BY <1>1, <1>2 DEF PlacedType
<1> QED BY <1>1, <1>3, <1>4, OrdersChange

\* Only whether orders work has changed.
LEMMA OrdersKept ==
    ASSUME TwinTypes, PlacingTypes, BrokerTypes,
           orders' \in Seq(PlacedType), Len(orders') = Len(orders)
    PROVE  /\ twin' = twin /\ held' = held => TwinTypes'
           /\ placing' = placing => PlacingTypes'
           /\ causes' = causes => BrokerTypes'
<1>1. DOMAIN orders' = DOMAIN orders
  <2>1. orders \in Seq(PlacedType)
    BY DEF BrokerTypes
  <2> QED BY <2>1
<1>2. twin' = twin /\ held' = held => TwinTypes'
  BY DEF TwinTypes
<1>3. placing' = placing => PlacingTypes'
  BY DEF PlacingTypes
<1>4. causes' = causes => BrokerTypes'
  BY <1>1 DEF BrokerTypes, causes
<1> QED BY <1>2, <1>3, <1>4

LEMMA CancelSentTypes == \A t \in Task, o \in Order : OrdersTypes /\ CancelSent(t, o) => OrdersTypes'
<1> SUFFICES ASSUME NEW t \in Task, NEW o \in Order, OrdersTypes, CancelSent(t, o) PROVE OrdersTypes'
  OBVIOUS
<1>1. /\ UNCHANGED <<lead, sock, wsok, look, known, missed, twin, held, pass, alive, placing, edits, causes, changes, up>>
      /\ job' = [job EXCEPT ![t].drop = @ \ {o}]
  BY DEF CancelSent, leaderVars, mirrorVars
<1>2. FeedTypes /\ JobTypes /\ TwinTypes /\ PlacingTypes /\ RequestTypes /\ BrokerTypes /\ BoundTypes
  BY Groups
<1> DEFINE r == [job[t] EXCEPT !.drop = @ \ {o}]
<1>3. job[t] \in JobType /\ \A k \in DOMAIN job[t].legs : job[t].make[job[t].legs[k]] > 0
  BY <1>2 DEF JobTypes
<1>4. job' = [job EXCEPT ![t] = r]
  BY <1>1
<1>5. r \in JobType /\ r.legs = job[t].legs /\ r.make = job[t].make /\ r.edit = job[t].edit
  BY <1>3 DEF JobType
<1> HIDE DEF r
<1>6. JobTypes'
  <2>1. job \in [Task -> JobType] /\ \A q \in job["apply"].edit : known[q] > 0
    BY <1>2 DEF JobTypes
  <2>2. job'["apply"].edit = job["apply"].edit
    BY <1>4, <1>5, <2>1 DEF Task
  <2>3. \A q \in job'["apply"].edit : known'[q] > 0
    BY <1>1, <2>1, <2>2
  <2>4. \A k \in DOMAIN r.legs : r.make[r.legs[k]] > 0
    BY <1>3, <1>5
  <2> QED BY <1>2, <1>4, <1>5, <2>3, <2>4, JobChanges
<1>7. CASE ~HasTwin(o)
  <2>1. UNCHANGED <<cancels, orders, faults>>
    BY <1>7 DEF CancelSent
  <2> QED BY <1>1, <1>2, <1>6, <2>1, TypesStay, Groups DEF OrdersTypes
<1>8. CASE HasTwin(o)
  <2> DEFINE c(b) == [task |-> t, order |-> o, id |-> twin[o].id, ok |-> b]
  <2>1. twin[o].id \in 1 .. MaxPlaced
    BY <1>2, <1>8, Sizes DEF HasTwin, TwinTypes, TwinType, Id
  <2>2. \A b \in BOOLEAN : c(b) \in CancelType
    BY <2>1 DEF CancelType
  <2>2a. \A b \in BOOLEAN : c(b).id <= Len(orders)
    BY <1>2 DEF TwinTypes
  <2>3. \A k \in DOMAIN orders : orders[k] \in PlacedType
    BY <1>2 DEF BrokerTypes
  <2>4. Working(twin[o].id) \in BOOLEAN
    <3>1. twin[o].id <= Len(orders) /\ orders \in Seq(PlacedType)
      BY <1>2 DEF TwinTypes, BrokerTypes
    <3>2. twin[o].id \in DOMAIN orders
      BY <2>1, <3>1
    <3> QED BY <2>3, <3>2 DEF Working, PlacedType
  <2>5. \/ /\ cancels' = cancels \cup {c(Working(twin[o].id))}
           /\ orders' = Cancelled(twin[o].id)
           /\ UNCHANGED faults
        \/ /\ Fault
           /\ cancels' = cancels \cup {c(FALSE)}
           /\ orders' \in {orders, Cancelled(twin[o].id)}
        \/ Fault /\ UNCHANGED <<cancels, orders>>
    BY <1>8 DEF CancelSent
  <2> HIDE DEF c
  <2>6. cancels' \subseteq CancelType
    BY <1>2, <2>2, <2>4, <2>5 DEF RequestTypes
  <2>7. orders' \in Seq(PlacedType) /\ Len(orders') = Len(orders)
    <3>1. orders' \in {orders, Cancelled(twin[o].id)}
      BY <2>5
    <3> QED BY <1>2, <3>1, CancelledTypes DEF BrokerTypes
  <2>8. faults' \in 0 .. MaxFaults
    BY <1>2, <2>5, FaultTypes DEF BoundTypes
  <2>9. RequestTypes' /\ BoundTypes'
    <3>1. \A q \in cancels' \cup edits' : q.id <= Len(orders')
      BY <1>1, <1>2, <2>2a, <2>4, <2>5, <2>7 DEF RequestTypes
    <3> QED BY <1>1, <1>2, <2>6, <2>8, <3>1 DEF RequestTypes, BoundTypes
  <2>10. TwinTypes' /\ PlacingTypes' /\ BrokerTypes'
    BY <1>1, <1>2, <2>7, OrdersKept
  <2> QED BY <1>1, <1>2, <1>6, <2>9, <2>10, TypesStay, Groups DEF OrdersTypes
<1> QED BY <1>7, <1>8

LEMMA NoTwinType == NoTwin \in TwinType /\ NoTwin.id = 0
BY Sizes DEF NoTwin, TwinType, Id

LEMMA CancelAnsweredTypes == \A c \in cancels : OrdersTypes /\ CancelAnswered(c) => OrdersTypes'
<1> SUFFICES ASSUME NEW c \in cancels, OrdersTypes, CancelAnswered(c) PROVE OrdersTypes'
  OBVIOUS
<1>1. /\ UNCHANGED <<lead, sock, wsok, look, known, missed, held, job, pass, alive, placing, edits, orders, causes, changes, faults, up>>
      /\ cancels' = cancels \ {c}
      /\ twin' \in {twin, [twin EXCEPT ![c.order] = NoTwin]}
  BY DEF CancelAnswered, leaderVars, brokerVars
<1>2. TwinTypes /\ RequestTypes /\ BrokerTypes
  BY Groups
<1>3. c.order \in Order
  BY <1>2 DEF RequestTypes, CancelType
<1>4. twin' \in [Order -> TwinType] /\ \A o \in Order : twin'[o].id \in {0, twin[o].id}
  BY <1>1, <1>2, <1>3, NoTwinType DEF TwinTypes
<1>5. Len(orders) \in Nat
  BY <1>2 DEF BrokerTypes
<1>6. TwinTypes'
  BY <1>1, <1>2, <1>4, <1>5 DEF TwinTypes
<1>7. RequestTypes'
  BY <1>1, <1>2 DEF RequestTypes
<1> QED
  BY <1>1, <1>6, <1>7, TypesStay, Groups DEF OrdersTypes

-----------------------------------------------------------------------------
(* _create *)

LEMMA ConsiderTypes == \A t \in Task, o \in Order : OrdersTypes /\ Consider(t, o) => OrdersTypes'
<1> SUFFICES ASSUME NEW t \in Task, NEW o \in Order, OrdersTypes, Consider(t, o) PROVE OrdersTypes'
  OBVIOUS
<1>1. /\ UNCHANGED <<lead, sock, wsok, look, known, missed, twin, held, pass, alive, placing, cancels, edits, orders, causes, changes, faults, up>>
      /\ job[t].make[o] > 0 /\ job[t].legs = <<>>
      /\ \/ \E legs \in {<<o>>} \cup {<<o, p>> : p \in Other(t, o)} : job' = [job EXCEPT ![t].legs = legs]
         \/ job' = [job EXCEPT ![t].make[o] = 0]
  BY DEF Consider, leaderVars, mirrorVars, brokerVars
<1>2. FeedTypes /\ JobTypes
  BY Groups
<1>3. job[t] \in JobType /\ job \in [Task -> JobType] /\ \A q \in job["apply"].edit : known[q] > 0
  BY <1>2 DEF JobTypes
<1>4. PICK r \in JobType : /\ job' = [job EXCEPT ![t] = r] /\ r.edit = job[t].edit
                           /\ \A k \in DOMAIN r.legs : r.make[r.legs[k]] > 0
  <2>1. ASSUME NEW legs \in {<<o>>} \cup {<<o, p>> : p \in Other(t, o)}, job' = [job EXCEPT ![t].legs = legs]
        PROVE  \E r \in JobType : /\ job' = [job EXCEPT ![t] = r] /\ r.edit = job[t].edit
                                  /\ \A k \in DOMAIN r.legs : r.make[r.legs[k]] > 0
    <3> DEFINE r == [job[t] EXCEPT !.legs = legs]
    <3>1. \A p \in Other(t, o) : p \in Order /\ job[t].make[p] > 0
      BY Sizes DEF Other
    <3>2. legs \in LegsType
      BY <3>1 DEF LegsType
    <3>3. \A k \in DOMAIN legs : job[t].make[legs[k]] > 0
      BY <1>1, <3>1
    <3>4. r \in JobType /\ r.legs = legs /\ r.make = job[t].make /\ r.edit = job[t].edit
      BY <1>3, <3>2 DEF JobType
    <3>5. job' = [job EXCEPT ![t] = r]
      BY <2>1
    <3> HIDE DEF r
    <3> QED BY <3>3, <3>4, <3>5
  <2>2. CASE job' = [job EXCEPT ![t].make[o] = 0]
    <3> DEFINE r == [job[t] EXCEPT !.make = [@ EXCEPT ![o] = 0]]
    <3>1. job[t].make \in Versions
      BY <1>3 DEF JobType
    <3>2. [job[t].make EXCEPT ![o] = 0] \in Versions
      BY <3>1, Sizes DEF Versions
    <3>3. r \in JobType /\ r.legs = <<>> /\ r.edit = job[t].edit
      BY <1>1, <1>3, <3>2 DEF JobType
    <3>4. job' = [job EXCEPT ![t] = r]
      BY <2>2
    <3> HIDE DEF r
    <3>5. \A k \in DOMAIN r.legs : r.make[r.legs[k]] > 0
      BY <3>3
    <3> QED BY <3>3, <3>4, <3>5
  <2> QED BY <1>1, <2>1, <2>2
<1>5. job'["apply"].edit = job["apply"].edit
  BY <1>3, <1>4 DEF Task
<1>6. JobTypes'
  BY <1>1, <1>2, <1>3, <1>4, <1>5, JobChanges
<1> QED
  BY <1>1, <1>6, TypesStay, Groups DEF OrdersTypes

LEMMA LegsShape ==
    ASSUME NEW s \in LegsType, s # <<>>
    PROVE  /\ s \in Seq(Order) /\ Len(s) \in {1, 2} /\ DOMAIN s = 1 .. Len(s) /\ s[1] \in Order
           /\ Len(s) = 1 => s = <<s[1]>>
<1>1. s \in {<<o>> : o \in Order} \/ s \in Order \X Order
  BY DEF LegsType
<1>2. CASE s \in {<<o>> : o \in Order}
  <2>1. PICK o \in Order : s = <<o>>
    BY <1>2
  <2> QED BY <2>1
<1>3. CASE s \in Order \X Order
  <2>1. PICK o \in Order, q \in Order : s = <<o, q>>
    BY <1>3
  <2> QED BY <2>1
<1> QED BY <1>1, <1>2, <1>3

\* The broker's new orders, appended in the order of the legs.
LEMMA PlacedTypes ==
    ASSUME JobTypes, BrokerTypes, NEW t \in Task, job[t].legs # <<>>,
           Len(orders) + Len(job[t].legs) <= MaxPlaced
    PROVE  /\ orders \o Placed(t) \in Seq(PlacedType)
           /\ Len(orders \o Placed(t)) = Len(orders) + Len(job[t].legs)
           /\ Len(job[t].legs) \in {1, 2} /\ Len(orders) \in Nat
           /\ \A i \in DOMAIN orders : (orders \o Placed(t))[i] = orders[i]
           /\ \A k \in 1 .. Len(job[t].legs) :
                (orders \o Placed(t))[Len(orders) + k] = Placed(t)[k]
           /\ \A k \in 1 .. Len(job[t].legs) : Placed(t)[k].order = job[t].legs[k]
<1> DEFINE legs == job[t].legs
<1>1. job[t] \in JobType /\ \A k \in DOMAIN legs : job[t].make[legs[k]] > 0
  BY DEF JobTypes
<1>2. legs \in LegsType /\ job[t].make \in Versions
  BY <1>1 DEF JobType
<1>4. /\ legs \in Seq(Order) /\ Len(legs) \in {1, 2} /\ DOMAIN legs = 1 .. Len(legs)
  BY <1>2, LegsShape
<1>5. \A k \in 1 .. Len(legs) : legs[k] \in Order
  BY <1>4
<1>6. orders \in Seq(PlacedType) /\ Len(orders) \in Nat /\ Len(orders) + Len(legs) <= MaxPlaced
  BY DEF BrokerTypes
<1>6a. \A k \in 1 .. Len(legs) : job[t].make[legs[k]] > 0
  BY <1>1, <1>4
<1> HIDE DEF legs
<1>7. \A k \in 1 .. Len(legs) : job[t].make[legs[k]] \in Version
  <2>1. \A k \in 1 .. Len(legs) : job[t].make[legs[k]] > 0
    BY <1>6a
  <2>2. \A o \in Order : job[t].make[o] \in 0 .. MaxVersion
    BY <1>2 DEF Versions
  <2>3. \A v \in 0 .. MaxVersion : v > 0 => v \in Version
    BY Sizes DEF Version
  <2> QED BY <1>5, <2>1, <2>2, <2>3
<1>8. \A k \in 1 .. Len(legs) : (IF Len(legs) = 1 THEN 0 ELSE Len(orders) + 3 - k) \in Id
  BY <1>4, <1>6, Sizes DEF Id
<1>9. Placed(t) = [k \in 1 .. Len(legs) |->
        [order |-> legs[k], version |-> job[t].make[legs[k]], works |-> TRUE,
         oco |-> IF Len(legs) = 1 THEN 0 ELSE Len(orders) + 3 - k]]
  BY <1>4 DEF Placed, legs
<1>10. Placed(t) \in [1 .. Len(legs) -> PlacedType]
  BY <1>5, <1>7, <1>8, <1>9 DEF PlacedType
<1>11. Placed(t) \in Seq(PlacedType) /\ Len(Placed(t)) = Len(legs)
  BY <1>4, <1>10
<1>12. \A k \in 1 .. Len(legs) : Placed(t)[k].order = legs[k]
  BY <1>9
<1>13. /\ orders \o Placed(t) \in Seq(PlacedType)
       /\ Len(orders \o Placed(t)) = Len(orders) + Len(legs)
       /\ \A i \in 1 .. Len(orders) : (orders \o Placed(t))[i] = orders[i]
       /\ \A k \in 1 .. Len(Placed(t)) : (orders \o Placed(t))[Len(orders) + k] = Placed(t)[k]
  <2> HIDE DEF Placed
  <2>1. \A i \in 1 .. Len(orders) + Len(Placed(t)) :
           (orders \o Placed(t))[i] = IF i <= Len(orders) THEN orders[i] ELSE Placed(t)[i - Len(orders)]
    BY <1>6, <1>11, ConcatProperties
  <2>2. \A k \in 1 .. Len(Placed(t)) : /\ Len(orders) + k \in 1 .. Len(orders) + Len(Placed(t))
                                       /\ ~(Len(orders) + k <= Len(orders))
                                       /\ Len(orders) + k - Len(orders) = k
    BY <1>4, <1>6, <1>11
  <2>3. \A i \in 1 .. Len(orders) : i \in 1 .. Len(orders) + Len(Placed(t)) /\ i <= Len(orders)
    BY <1>4, <1>6, <1>11
  <2>4. \A i \in 1 .. Len(orders) : (orders \o Placed(t))[i] = orders[i]
    BY <2>1, <2>3
  <2>5. \A k \in 1 .. Len(Placed(t)) : (orders \o Placed(t))[Len(orders) + k] = Placed(t)[k]
    BY <2>1, <2>2
  <2>6. orders \o Placed(t) \in Seq(PlacedType) /\ Len(orders \o Placed(t)) = Len(orders) + Len(legs)
    <3>1. orders \o Placed(t) \in Seq(PlacedType) /\ Len(orders \o Placed(t)) = Len(orders) + Len(Placed(t))
      BY <1>6, <1>11, ConcatProperties
    <3> QED BY <1>11, <3>1
  <2> QED BY <1>11, <2>4, <2>5, <2>6
<1>14. DOMAIN orders = 1 .. Len(orders)
  BY <1>6
<1> QED BY <1>4, <1>6, <1>11, <1>12, <1>13, <1>14 DEF legs

\* What a placement adds, and the second legs that had a twin.
NewOnes == DOMAIN orders' \ DOMAIN orders
Again(t) == {o \in Legs(t) \ {job[t].legs[1]} : HasTwin(o)}

\* What a placement does to its variables, whatever its result.
LEMMA PlaceFacts ==
    ASSUME NEW t \in Task, Place(t)
    PROVE  /\ UNCHANGED <<lead, sock, wsok, look, known, missed, twin, held, job, pass, alive, cancels, edits, changes, up>>
           /\ job[t].legs # <<>> /\ placing.task = "nobody"
           /\ Len(orders) + Len(job[t].legs) <= MaxPlaced
           /\ ~HasTwin(job[t].legs[1])
           /\ faults' = faults \/ Fault
           /\ \E result \in {"taken", "refused", "lost"} :
                /\ placing' = [task |-> t, legs |-> job[t].legs, versions |-> job[t].make,
                               first |-> Len(orders) + 1, result |-> result]
                /\ \/ /\ result # "refused"
                      /\ orders' = orders \o Placed(t)
                      /\ stray' = IF result = "lost" THEN stray \cup NewOnes ELSE stray
                      /\ beside' = IF Unanswered THEN beside \cup NewOnes ELSE beside
                      /\ doubled' = doubled \cup {twin[o].id : o \in Again(t)}
                                       \cup {i \in NewOnes : orders'[i].order \in Again(t)}
                   \/ result # "taken" /\ UNCHANGED <<orders, causes>>
BY Zenon DEF Place, Superfluous, leaderVars, mirrorVars, brokerVars, NewOnes, Again

LEMMA PlaceTypes == \A t \in Task : OrdersTypes /\ Place(t) => OrdersTypes'
<1> SUFFICES ASSUME NEW t \in Task, OrdersTypes, Place(t) PROVE OrdersTypes'
  OBVIOUS
<1>1. JobTypes /\ TwinTypes /\ PlacingTypes /\ BrokerTypes /\ BoundTypes
  BY Groups
<1>2. /\ UNCHANGED <<lead, sock, wsok, look, known, missed, twin, held, job, pass, alive, cancels, edits, changes, up>>
      /\ job[t].legs # <<>> /\ Len(orders) + Len(job[t].legs) <= MaxPlaced
      /\ faults' = faults \/ Fault
  BY PlaceFacts
<1>3. PICK result \in {"taken", "refused", "lost"} :
                /\ placing' = [task |-> t, legs |-> job[t].legs, versions |-> job[t].make,
                               first |-> Len(orders) + 1, result |-> result]
                /\ \/ /\ result # "refused"
                      /\ orders' = orders \o Placed(t)
                      /\ stray' = IF result = "lost" THEN stray \cup NewOnes ELSE stray
                      /\ beside' = IF Unanswered THEN beside \cup NewOnes ELSE beside
                      /\ doubled' = doubled \cup {twin[o].id : o \in Again(t)}
                                       \cup {i \in NewOnes : orders'[i].order \in Again(t)}
                   \/ result # "taken" /\ UNCHANGED <<orders, causes>>
  BY PlaceFacts
<1>4. /\ orders \o Placed(t) \in Seq(PlacedType)
      /\ Len(orders \o Placed(t)) = Len(orders) + Len(job[t].legs)
      /\ Len(job[t].legs) \in {1, 2} /\ Len(orders) \in Nat
  BY <1>1, <1>2, PlacedTypes
<1>5. /\ orders \in Seq(PlacedType) /\ Len(orders) <= MaxPlaced /\ stray \cup beside \cup doubled \subseteq DOMAIN orders
      /\ DOMAIN orders = 1 .. Len(orders) /\ MaxPlaced \in Nat
  BY <1>1, Sizes DEF BrokerTypes
<1>6. /\ orders' \in Seq(PlacedType) /\ Len(orders') \in Nat /\ Len(orders') >= Len(orders)
      /\ Len(orders') <= MaxPlaced /\ DOMAIN orders' = 1 .. Len(orders')
  <2>1. CASE orders' = orders
    BY <1>5, <2>1, <1>4
  <2>2. CASE orders' = orders \o Placed(t)
    <3>1. orders' \in Seq(PlacedType) /\ Len(orders') = Len(orders) + Len(job[t].legs)
      BY <1>4, <2>2
    <3>2. DOMAIN orders' = 1 .. Len(orders')
      BY <3>1
    <3> HIDE DEF Placed
    <3> QED BY <1>2, <1>4, <1>5, <3>1, <3>2
  <2> QED BY <1>3, <2>1, <2>2
<1>7. BrokerTypes'
  <2>1. DOMAIN orders \subseteq DOMAIN orders'
    BY <1>4, <1>5, <1>6
  <2>2. NewOnes \subseteq DOMAIN orders'
    BY DEF NewOnes
  <2>3. \A o \in Again(t) : twin[o].id \in DOMAIN orders
    <3>1. \A o \in Again(t) : o \in Order
      <4>1. job[t].legs \in LegsType
        BY <1>1 DEF JobTypes, JobType
      <4>2. \A k \in DOMAIN job[t].legs : job[t].legs[k] \in Order
        BY <1>2, <4>1, LegsShape
      <4> QED BY <4>2 DEF Again, Legs
    <3>2. \A o \in Order : twin[o].id \in Nat /\ twin[o].id <= Len(orders)
      BY <1>1, Sizes DEF TwinTypes, TwinType, Id
    <3>3. \A o \in Again(t) : twin[o].id > 0
      BY DEF Again, HasTwin
    <3> QED BY <1>4, <1>5, <3>1, <3>2, <3>3
  <2>4. ASSUME UNCHANGED <<orders, causes>>
        PROVE  stray' \cup beside' \cup doubled' \subseteq DOMAIN orders'
    BY <1>5, <2>4 DEF causes
  <2>5. ASSUME stray' = IF result = "lost" THEN stray \cup NewOnes ELSE stray,
               beside' = IF Unanswered THEN beside \cup NewOnes ELSE beside,
               doubled' = doubled \cup {twin[o].id : o \in Again(t)}
                              \cup {i \in NewOnes : orders'[i].order \in Again(t)}
        PROVE  stray' \cup beside' \cup doubled' \subseteq DOMAIN orders'
    BY <1>5, <2>1, <2>2, <2>3, <2>5
  <2>6. stray' \cup beside' \cup doubled' \subseteq DOMAIN orders'
    BY <1>3, <2>4, <2>5, Zenon
  <2> QED BY <1>6, <2>6 DEF BrokerTypes
<1>8. TwinTypes'
  <2>1. \A o \in Order : twin[o].id \in Nat /\ twin[o].id <= Len(orders)
    BY <1>1, Sizes DEF TwinTypes, TwinType, Id
  <2>2. \A o \in Order : twin'[o].id <= Len(orders')
    BY <1>2, <1>4, <1>6, <2>1
  <2> QED BY <1>1, <1>2, <2>2 DEF TwinTypes
<1>9. PlacingTypes'
  <2>1. job[t] \in JobType
    BY <1>1 DEF JobTypes
  <2>2. job[t].legs \in LegsType /\ job[t].make \in Versions /\ Len(orders) + 1 \in Nat
    BY <1>4, <2>1 DEF JobType
  <2>3. placing' \in PlacingType
    BY <1>3, <2>2 DEF PlacingType
  <2>4. placing'.result = "taken" => Len(orders') = Len(orders) + Len(job[t].legs)
    BY <1>3, <1>4
  <2>5. placing'.legs = job[t].legs /\ placing'.first = Len(orders) + 1
    BY <1>3
  <2>6. placing'.result = "taken" => placing'.first >= 1 /\ placing'.first + Len(placing'.legs) = Len(orders') + 1
    <3>1. ASSUME NEW n \in Nat, NEW m \in {1, 2}, NEW k, k = n + m
          PROVE  n + 1 >= 1 /\ (n + 1) + m = k + 1
      BY <3>1
    <3>2. ASSUME placing'.result = "taken" PROVE Len(orders') = Len(orders) + Len(job[t].legs)
      BY <2>4, <3>2
    <3> QED BY <1>4, <2>5, <3>1, <3>2
  <2> QED BY <1>2, <2>3, <2>5, <2>6 DEF PlacingTypes
<1>9a. RequestTypes'
  <2>1. RequestTypes
    BY Groups
  <2>2. \A r \in cancels \cup edits : r.id \in Nat /\ r.id <= Len(orders)
    BY <2>1, Sizes DEF RequestTypes, CancelType, EditType
  <2>3. \A r \in cancels' \cup edits' : r.id <= Len(orders')
    BY <1>2, <1>4, <1>6, <2>2
  <2> QED BY <1>2, <2>1, <2>3 DEF RequestTypes
<1>10. BoundTypes'
  <2>1. faults' \in 0 .. MaxFaults
    BY <1>1, <1>2, FaultTypes DEF BoundTypes
  <2> QED BY <1>1, <1>2, <2>1 DEF BoundTypes
<1> QED
  BY <1>2, <1>7, <1>8, <1>9, <1>9a, <1>10, TypesStay, Groups DEF OrdersTypes

\* The legs of a task are done with.
LEMMA LegsDone ==
    ASSUME NEW r \in JobType, NEW S
    PROVE  LET q == [r EXCEPT !.legs = <<>>, !.make = [o \in Order |-> IF o \in S THEN 0 ELSE @[o]]]
           IN  q \in JobType /\ q.legs = <<>> /\ q.edit = r.edit /\ q.ids = r.ids
<1>1. r.make \in Versions
  BY DEF JobType
<1> DEFINE m == [o \in Order |-> IF o \in S THEN 0 ELSE r.make[o]]
<1>2. m \in Versions
  BY <1>1, Sizes DEF Versions
<1> HIDE DEF m
<1>3. [r EXCEPT !.legs = <<>>, !.make = m] \in JobType
  BY <1>2 DEF JobType, LegsType
<1>4. /\ [r EXCEPT !.legs = <<>>, !.make = m].legs = <<>>
      /\ [r EXCEPT !.legs = <<>>, !.make = m].edit = r.edit
      /\ [r EXCEPT !.legs = <<>>, !.make = m].ids = r.ids
  BY DEF JobType
<1> QED BY <1>3, <1>4 DEF m

\* With its legs done with, a task keeps the types.
LEMMA LegsDoneTypes ==
    ASSUME JobTypes, NEW t \in Task, NEW S, known' = known,
           job' = [job EXCEPT ![t].legs = <<>>, ![t].make = [o \in Order |-> IF o \in S THEN 0 ELSE @[o]]]
    PROVE  /\ JobTypes' /\ job'[t].legs = <<>> /\ job'[t].ids = job[t].ids
           /\ \A u \in Task : u # t => job'[u] = job[u]
<1> DEFINE r == [job[t] EXCEPT !.legs = <<>>, !.make = [o \in Order |-> IF o \in S THEN 0 ELSE @[o]]]
<1>1. job \in [Task -> JobType] /\ job[t] \in JobType /\ \A o \in job["apply"].edit : known[o] > 0
  BY DEF JobTypes
<1>2. r \in JobType /\ r.legs = <<>> /\ r.edit = job[t].edit /\ r.ids = job[t].ids
  BY <1>1, LegsDone
<1>3. job' = [job EXCEPT ![t] = r]
  OBVIOUS
<1> HIDE DEF r
<1>4. job'[t] = r /\ \A u \in Task : u # t => job'[u] = job[u]
  BY <1>1, <1>3
<1>5. job'["apply"].edit = job["apply"].edit
  BY <1>2, <1>4 DEF Task
<1>6. \A k \in DOMAIN r.legs : r.make[r.legs[k]] > 0
  BY <1>2
<1> QED BY <1>1, <1>2, <1>3, <1>4, <1>5, <1>6, JobChanges

LEMMA PlaceSkippedTypes == \A t \in Task : OrdersTypes /\ PlaceSkipped(t) => OrdersTypes'
<1> SUFFICES ASSUME NEW t \in Task, OrdersTypes, PlaceSkipped(t) PROVE OrdersTypes'
  OBVIOUS
<1>1. /\ UNCHANGED <<lead, sock, wsok, look, known, missed, twin, held, pass, alive, placing, cancels, edits, orders, causes, changes, faults, up>>
      /\ job' = [job EXCEPT ![t].legs = <<>>, ![t].make = [o \in Order |-> IF o \in Legs(t) THEN 0 ELSE @[o]]]
  BY DEF PlaceSkipped, leaderVars, mirrorVars, brokerVars
<1>2. JobTypes'
  BY <1>1, LegsDoneTypes, Groups
<1> QED
  BY <1>1, <1>2, TypesStay, Groups DEF OrdersTypes

LEMMA PlaceAnsweredTypes == OrdersTypes /\ PlaceAnswered => OrdersTypes'
<1> SUFFICES ASSUME OrdersTypes, PlaceAnswered PROVE OrdersTypes'
  OBVIOUS
<1> DEFINE legs == {placing.legs[k] : k \in DOMAIN placing.legs}
           idOf(o) == IF o = placing.legs[1] THEN placing.first ELSE placing.first + 1
<1>1. /\ UNCHANGED <<lead, sock, wsok, look, known, missed, pass, alive, cancels, edits, orders, causes, changes, faults, up>>
      /\ placing.task # "nobody" /\ placing' = NotPlacing
      /\ twin' = [o \in Order |-> IF placing.result = "taken" /\ o \in legs
                        THEN [id |-> idOf(o), version |-> placing.versions[o]] ELSE twin[o]]
      /\ held' = IF placing.result = "lost" THEN held \cup legs ELSE held
      /\ \/ job' = job
         \/ job' = [job EXCEPT ![placing.task].legs = <<>>,
                      ![placing.task].make = [o \in Order |-> IF o \in legs THEN 0 ELSE @[o]]]
  BY DEF PlaceAnswered, leaderVars, brokerVars
<1>2. JobTypes /\ TwinTypes /\ PlacingTypes /\ BrokerTypes
  BY Groups
<1>3. /\ placing.task \in Task /\ placing.legs \in LegsType /\ placing.versions \in Versions
      /\ placing.first \in Nat
  BY <1>1, <1>2 DEF PlacingTypes, PlacingType
<1>4. legs \subseteq Order
  BY <1>3 DEF LegsType
<1>5. JobTypes'
  <2>1. CASE job' = job
    BY <1>1, <1>2, <2>1, TypesStay
  <2>2. CASE job' = [job EXCEPT ![placing.task].legs = <<>>,
                      ![placing.task].make = [o \in Order |-> IF o \in legs THEN 0 ELSE @[o]]]
    <3> HIDE DEF legs
    <3> QED BY <1>1, <1>2, <1>3, <2>2, LegsDoneTypes
  <2> QED BY <1>1, <2>1, <2>2
<1>6. \A o \in Order : twin[o] \in TwinType /\ twin[o].id <= Len(orders)
  BY <1>2 DEF TwinTypes
<1>7. ASSUME NEW o \in Order, placing.result = "taken", o \in legs
      PROVE  idOf(o) \in Id /\ idOf(o) <= Len(orders)
  <2>1. /\ placing.legs # <<>> /\ placing.first >= 1
        /\ placing.first + Len(placing.legs) = Len(orders) + 1
    BY <1>1, <1>2, <1>7 DEF PlacingTypes
  <2>2. Len(orders) \in Nat /\ Len(orders) <= MaxPlaced /\ MaxPlaced \in Nat
    BY <1>2, Sizes DEF BrokerTypes
  <2>3. \/ Len(placing.legs) = 1 /\ o = placing.legs[1]
        \/ Len(placing.legs) = 2
    <3>1. /\ Len(placing.legs) \in {1, 2} /\ DOMAIN placing.legs = 1 .. Len(placing.legs)
      BY <1>3, <2>1, LegsShape
    <3>2. PICK k \in DOMAIN placing.legs : o = placing.legs[k]
      BY <1>7
    <3> QED BY <3>1, <3>2
  <2>4. placing.first <= Len(orders) /\ (Len(placing.legs) = 2 => placing.first + 1 <= Len(orders))
    <3>1. ASSUME NEW f \in Nat, NEW n \in Nat, NEW m \in {1, 2}, f + m = n + 1
          PROVE  f <= n /\ (m = 2 => f + 1 <= n)
      BY <3>1
    <3>2. Len(placing.legs) \in {1, 2}
      BY <2>3
    <3> QED BY <1>3, <2>1, <2>2, <3>1, <3>2
  <2>5. idOf(o) \in {placing.first, placing.first + 1} /\ (Len(placing.legs) = 1 => idOf(o) = placing.first)
    BY <2>3
  <2> HIDE DEF idOf
  <2> QED BY <1>3, <2>2, <2>3, <2>4, <2>5 DEF Id
<1> HIDE DEF legs, idOf
<1>8. \A o \in Order : placing.versions[o] \in 0 .. MaxVersion
  BY <1>3 DEF Versions
<1>9. ASSUME NEW o \in Order PROVE twin'[o] \in TwinType /\ twin'[o].id <= Len(orders)
  <2>1. CASE placing.result = "taken" /\ o \in legs
    <3>1. twin'[o] = [id |-> idOf(o), version |-> placing.versions[o]]
      BY <1>1, <2>1
    <3> QED BY <1>7, <1>8, <2>1, <3>1 DEF TwinType
  <2>2. CASE ~(placing.result = "taken" /\ o \in legs)
    BY <1>1, <1>6, <2>2
  <2> QED BY <2>1, <2>2
<1>10. TwinTypes'
  <2>1. held' \subseteq Order
    BY <1>1, <1>2, <1>4 DEF TwinTypes
  <2>2. twin' \in [Order -> TwinType]
    BY <1>1, <1>9
  <2> QED BY <1>1, <1>9, <2>1, <2>2 DEF TwinTypes
<1>11. PlacingTypes'
  <2>1. NotPlacing \in PlacingType /\ NotPlacing.task = "nobody"
    BY Sizes DEF NotPlacing, PlacingType, LegsType, Versions, None
  <2> QED BY <1>1, <2>1 DEF PlacingTypes
<1> QED
  BY <1>1, <1>5, <1>10, <1>11, TypesStay, Groups DEF OrdersTypes

-----------------------------------------------------------------------------
(* _modify *)

LEMMA ModifySentFacts ==
    ASSUME OrdersTypes, NEW o \in Order, ModifySent(o)
    PROVE  /\ UNCHANGED <<lead, sock, wsok, look, known, missed, twin, held, pass, alive, placing, cancels, causes, changes, up>>
           /\ o \in job["apply"].edit /\ edits = {}
           /\ job' = [job EXCEPT !["apply"].edit = @ \ {o}]
           /\ \/ UNCHANGED <<orders, edits, faults>>
              \/ /\ HasTwin(o) /\ twin[o].id \in DOMAIN orders
                 /\ faults' = faults \/ Fault
                 /\ orders' \in {orders, [orders EXCEPT ![twin[o].id].version =
                                            IF Working(twin[o].id) THEN known[o] ELSE @]}
                 /\ \E ok \in BOOLEAN :
                      edits' = {[order |-> o, id |-> twin[o].id, version |-> known[o], ok |-> ok]}
<1>1. /\ UNCHANGED <<lead, sock, wsok, look, known, missed, twin, held, pass, alive, placing, cancels, causes, changes, up>>
      /\ o \in job["apply"].edit /\ edits = {}
      /\ job' = [job EXCEPT !["apply"].edit = @ \ {o}]
  BY DEF ModifySent, leaderVars, mirrorVars
<1>2. CASE ~HasTwin(o) \/ twin[o].version = known[o]
  BY <1>1, <1>2 DEF ModifySent
<1>3. CASE HasTwin(o) /\ twin[o].version # known[o]
  <2>1. TwinTypes /\ BrokerTypes
    BY Groups
  <2>2. twin[o].id \in DOMAIN orders
    <3>1. twin[o].id \in Nat /\ twin[o].id > 0 /\ twin[o].id <= Len(orders)
      BY <1>3, <2>1, Sizes DEF HasTwin, TwinTypes, TwinType, Id
    <3>2. DOMAIN orders = 1 .. Len(orders)
      BY <2>1 DEF BrokerTypes
    <3> QED BY <3>1, <3>2
  <2> DEFINE i == twin[o].id
             changed == [orders EXCEPT ![i].version = IF Working(i) THEN known[o] ELSE @]
  <2>3. \E ok \in BOOLEAN :
                /\ ok => Working(i)
                /\ IF ok \/ ~Working(i) THEN UNCHANGED faults ELSE Fault
                /\ orders' \in IF ok THEN {changed} ELSE {orders, changed}
                /\ edits' = {[order |-> o, id |-> i, version |-> known[o], ok |-> ok]}
    BY <1>3 DEF ModifySent
  <2> HIDE DEF changed
  <2>4. /\ faults' = faults \/ Fault
        /\ orders' \in {orders, changed}
        /\ \E ok \in BOOLEAN :
             edits' = {[order |-> o, id |-> i, version |-> known[o], ok |-> ok]}
    BY <2>3
  <2> QED BY <1>1, <1>3, <2>2, <2>4 DEF changed
<1> QED BY <1>2, <1>3

LEMMA ModifySentTypes == \A o \in Order : OrdersTypes /\ ModifySent(o) => OrdersTypes'
<1> SUFFICES ASSUME NEW o \in Order, OrdersTypes, ModifySent(o) PROVE OrdersTypes'
  OBVIOUS
<1>1. FeedTypes /\ JobTypes /\ TwinTypes /\ PlacingTypes /\ RequestTypes /\ BrokerTypes /\ BoundTypes
  BY Groups
<1>2. /\ UNCHANGED <<lead, sock, wsok, look, known, missed, twin, held, pass, alive, placing, cancels, causes, changes, up>>
      /\ o \in job["apply"].edit
      /\ job' = [job EXCEPT !["apply"].edit = @ \ {o}]
  BY ModifySentFacts
<1>3. known[o] \in Version
  <2>1. known[o] \in 0 .. MaxVersion /\ known[o] > 0
    BY <1>1, <1>2 DEF FeedTypes, JobTypes, Versions
  <2> QED BY <2>1, Sizes DEF Version
<1>4. JobTypes'
  <2> DEFINE r == [job["apply"] EXCEPT !.edit = @ \ {o}]
  <2>1. /\ job \in [Task -> JobType] /\ "apply" \in Task /\ job["apply"] \in JobType
        /\ \A k \in DOMAIN job["apply"].legs : job["apply"].make[job["apply"].legs[k]] > 0
        /\ \A q \in job["apply"].edit : known[q] > 0
    BY <1>1 DEF JobTypes, Task
  <2>2. r \in JobType /\ r.legs = job["apply"].legs /\ r.make = job["apply"].make /\ r.edit \subseteq job["apply"].edit
    BY <2>1 DEF JobType
  <2>3. job' = [job EXCEPT !["apply"] = r]
    BY <1>2
  <2> HIDE DEF r
  <2>4. job'["apply"] = r
    BY <2>1, <2>3
  <2>5. \A q \in job'["apply"].edit : known'[q] > 0
    BY <1>2, <2>1, <2>2, <2>4
  <2>6. \A k \in DOMAIN r.legs : r.make[r.legs[k]] > 0
    BY <2>1, <2>2
  <2> QED BY <1>1, <2>1, <2>2, <2>3, <2>5, <2>6, JobChanges
<1>5. CASE UNCHANGED <<orders, edits, faults>>
  BY <1>1, <1>2, <1>4, <1>5, TypesStay, Groups DEF OrdersTypes
<1>6. CASE /\ twin[o].id \in DOMAIN orders
           /\ faults' = faults \/ Fault
           /\ orders' \in {orders, [orders EXCEPT ![twin[o].id].version =
                                      IF Working(twin[o].id) THEN known[o] ELSE @]}
           /\ \E ok \in BOOLEAN :
                edits' = {[order |-> o, id |-> twin[o].id, version |-> known[o], ok |-> ok]}
  <2> DEFINE i == twin[o].id
             changed == [orders EXCEPT ![i].version = IF Working(i) THEN known[o] ELSE @]
  <2>1. /\ orders \in Seq(PlacedType) /\ \A k \in DOMAIN orders : orders[k] \in PlacedType
        /\ DOMAIN orders = 1 .. Len(orders) /\ Len(orders) <= MaxPlaced /\ MaxPlaced \in Nat /\ Len(orders) \in Nat
    BY <1>1, Sizes DEF BrokerTypes
  <2>2. changed \in Seq(PlacedType) /\ Len(changed) = Len(orders)
    <3>1. DOMAIN changed = DOMAIN orders /\ changed = [k \in DOMAIN orders |-> changed[k]]
      BY <2>1
    <3>2. changed[i] = [orders[i] EXCEPT !.version = IF Working(i) THEN known[o] ELSE @]
      BY <1>6
    <3>3. changed[i] \in PlacedType
      BY <1>3, <1>6, <2>1, <3>2 DEF PlacedType
    <3>4. \A k \in DOMAIN orders : k # i => changed[k] = orders[k]
      OBVIOUS
    <3> HIDE DEF changed
    <3>5. \A k \in DOMAIN orders : changed[k] \in PlacedType
      BY <2>1, <3>3, <3>4
    <3> QED BY <2>1, <3>1, <3>5, OrdersChange
  <2>3. orders' \in {orders, changed}
    BY <1>6
  <2> HIDE DEF changed
  <2>4. orders' \in Seq(PlacedType) /\ Len(orders') = Len(orders)
    BY <2>1, <2>2, <2>3
  <2>5. TwinTypes' /\ PlacingTypes' /\ BrokerTypes'
    BY <1>1, <1>2, <2>4, OrdersKept
  <2>6. edits' \subseteq EditType
    <3>1. i \in 1 .. MaxPlaced
      BY <1>6, <2>1
    <3> QED BY <1>3, <1>6, <3>1 DEF EditType
  <2>7. RequestTypes'
    <3>1. \A q \in cancels' \cup edits' : q.id <= Len(orders')
      BY <1>1, <1>2, <1>6, <2>1, <2>4 DEF RequestTypes
    <3> QED BY <1>1, <1>2, <2>6, <3>1 DEF RequestTypes
  <2>8. faults' \in 0 .. MaxFaults
    BY <1>1, <1>6, FaultTypes DEF BoundTypes
  <2>9. BoundTypes'
    BY <1>1, <1>2, <2>8 DEF BoundTypes
  <2> QED BY <1>1, <1>2, <1>4, <2>5, <2>7, <2>9, TypesStay, Groups DEF OrdersTypes
<1> QED BY <1>5, <1>6, ModifySentFacts

LEMMA ModifyAnsweredTypes == OrdersTypes /\ ModifyAnswered => OrdersTypes'
<1> SUFFICES ASSUME OrdersTypes, ModifyAnswered PROVE OrdersTypes'
  OBVIOUS
<1>1. PICK e \in edits :
        /\ edits' = edits \ {e}
        /\ twin' = IF e.ok THEN [twin EXCEPT ![e.order] = [id |-> e.id, version |-> e.version]] ELSE twin
        /\ UNCHANGED <<leaderVars, look, known, missed, held, job, pass, alive, placing, cancels,
                       brokerVars, changes, faults, up>>
  BY DEF ModifyAnswered
<1>2. TwinTypes /\ RequestTypes
  BY Groups
<1>3. e \in EditType
  BY <1>1, <1>2 DEF RequestTypes
<1>4. twin' \in [Order -> TwinType] /\ \A o \in Order : twin'[o].id <= Len(orders)
  <2>1. [id |-> e.id, version |-> e.version] \in TwinType /\ e.order \in Order /\ e.id <= Len(orders)
    BY <1>2, <1>3, Sizes DEF EditType, TwinType, Id, Version, RequestTypes
  <2> QED BY <1>1, <1>2, <2>1 DEF TwinTypes
<1>5. TwinTypes'
  BY <1>1, <1>2, <1>4 DEF TwinTypes, brokerVars
<1>6. RequestTypes'
  BY <1>1, <1>2 DEF RequestTypes, brokerVars
<1> QED
  BY <1>1, <1>5, <1>6, TypesStay, Groups DEF OrdersTypes, leaderVars, brokerVars

-----------------------------------------------------------------------------
(* reconcile, cancel_all, and what surrounds them *)

LEMMA IdleType == Idle \in JobType /\ Idle.legs = <<>> /\ Idle.edit = {} /\ Idle.ids = None
BY Sizes DEF Idle, JobType, None, Versions, LegsType, Id

LEMMA ReconcileReadsTypes == OrdersTypes /\ ReconcileReads => OrdersTypes'
<1> SUFFICES ASSUME OrdersTypes, ReconcileReads PROVE OrdersTypes'
  OBVIOUS
<1>1. /\ UNCHANGED <<lead, sock, wsok, look, known, missed, twin, held, job, placing, cancels, edits, orders, causes, changes, faults, up>>
      /\ pass' = "read" /\ alive' \subseteq DOMAIN orders
  BY DEF ReconcileReads, leaderVars, mirrorVars, brokerVars
<1>2. DOMAIN orders \subseteq 1 .. MaxPlaced
  <2>1. BrokerTypes
    BY Groups
  <2>2. DOMAIN orders = 1 .. Len(orders) /\ Len(orders) \in Nat /\ Len(orders) <= MaxPlaced /\ MaxPlaced \in Nat
    BY <2>1, Sizes DEF BrokerTypes
  <2> QED BY <2>2
<1>3. PassTypes'
  BY <1>1, <1>2 DEF PassTypes
<1> QED
  BY <1>1, <1>3, TypesStay, Groups DEF OrdersTypes

\* What one stretch of the walk through the twins does.
LEMMA WalkFacts ==
    ASSUME NEW given, Walk(given)
    PROVE  \E items \in SUBSET {o \in Order : given[o] > 0} :
             \E orphans \in SUBSET Order, later \in SUBSET Order :
                /\ \A o \in later : given[o] > 0
                /\ twin' = [o \in Order |-> IF o \in items /\ given[o] \notin alive THEN NoTwin ELSE twin[o]]
                /\ \/ /\ job' = [job EXCEPT !["reconcile"] = [@ EXCEPT !.drop = orphans,
                                     !.ids = [o \in Order |-> IF o \in later THEN given[o] ELSE 0]]]
                      /\ pass' = "items" /\ alive' = alive
                      /\ \A o \in later : o \notin items
                   \/ /\ job' = [job EXCEPT !["reconcile"] = [Idle EXCEPT !.make =
                                     [o \in Order |-> IF twin'[o].id > 0 \/ o \in held THEN 0 ELSE known[o]]]]
                      /\ pass' = "free" /\ alive' = {}
<1>1. PICK items \in SUBSET {o \in Order : given[o] > 0} :
        LET done == {o \in items : given[o] \notin alive}
            orphans == {o \in items \ done : known[o] = 0}
            later == {o \in Order \ items : given[o] > 0}
        IN /\ Cardinality(orphans) <= 1
           /\ orphans = {} => later = {}
           /\ twin' = [o \in Order |-> IF o \in done THEN NoTwin ELSE twin[o]]
           /\ job' = [job EXCEPT !["reconcile"] =
                IF orphans # {}
                  THEN [@ EXCEPT !.drop = orphans,
                                 !.ids = [o \in Order |-> IF o \in later THEN given[o] ELSE 0]]
                  ELSE [Idle EXCEPT !.make = [o \in Order |-> IF twin'[o].id > 0 \/ o \in held
                                                      THEN 0 ELSE known[o]]]]
           /\ pass' = IF orphans = {} THEN "free" ELSE "items"
           /\ alive' = IF orphans = {} THEN {} ELSE alive
  BY Zenon DEF Walk
<1> DEFINE done == {o \in items : given[o] \notin alive}
           orphans == {o \in items \ done : known[o] = 0}
           later == {o \in Order \ items : given[o] > 0}
<1>2. orphans \in SUBSET Order /\ later \in SUBSET Order /\ (\A o \in later : given[o] > 0 /\ o \notin items)
  OBVIOUS
<1>3. twin' = [o \in Order |-> IF o \in items /\ given[o] \notin alive THEN NoTwin ELSE twin[o]]
  <2>1. \A o \in Order : o \in done <=> (o \in items /\ given[o] \notin alive)
    OBVIOUS
  <2> HIDE DEF done
  <2> QED BY <1>1, <2>1, Zenon DEF done
<1>4. CASE orphans # {}
  <2>1. /\ job' = [job EXCEPT !["reconcile"] = [@ EXCEPT !.drop = orphans,
                                     !.ids = [o \in Order |-> IF o \in later THEN given[o] ELSE 0]]]
        /\ pass' = "items" /\ alive' = alive
    BY <1>1, <1>4, Zenon
  <2> HIDE DEF done, orphans, later
  <2> QED BY <1>2, <1>3, <2>1
<1>5. CASE orphans = {}
  <2>1. /\ job' = [job EXCEPT !["reconcile"] = [Idle EXCEPT !.make =
                                     [o \in Order |-> IF twin'[o].id > 0 \/ o \in held THEN 0 ELSE known[o]]]]
        /\ pass' = "free" /\ alive' = {}
    BY <1>1, <1>5, Zenon
  <2> HIDE DEF done, orphans, later
  <2> QED BY <1>2, <1>3, <2>1
<1> QED BY <1>4, <1>5

LEMMA WalkTypes ==
    ASSUME OrdersTypes, NEW given, given \in [Order -> Id], Walk(given),
           UNCHANGED <<held, known, orders>>
    PROVE  JobTypes' /\ PassTypes' /\ TwinTypes'
<1>1. PICK items \in SUBSET {o \in Order : given[o] > 0} :
             \E orphans \in SUBSET Order, later \in SUBSET Order :
                /\ \A o \in later : given[o] > 0
                /\ twin' = [o \in Order |-> IF o \in items /\ given[o] \notin alive THEN NoTwin ELSE twin[o]]
                /\ \/ /\ job' = [job EXCEPT !["reconcile"] = [@ EXCEPT !.drop = orphans,
                                     !.ids = [o \in Order |-> IF o \in later THEN given[o] ELSE 0]]]
                      /\ pass' = "items" /\ alive' = alive
                      /\ \A o \in later : o \notin items
                   \/ /\ job' = [job EXCEPT !["reconcile"] = [Idle EXCEPT !.make =
                                     [o \in Order |-> IF twin'[o].id > 0 \/ o \in held THEN 0 ELSE known[o]]]]
                      /\ pass' = "free" /\ alive' = {}
  BY WalkFacts
<1>2. FeedTypes /\ JobTypes /\ PassTypes /\ TwinTypes /\ BrokerTypes
  BY Groups
<1>3. TwinTypes'
  <2>1. \A o \in Order : twin[o] \in TwinType /\ twin[o].id <= Len(orders) /\ Len(orders) \in Nat
    BY <1>2 DEF TwinTypes, BrokerTypes
  <2>2. \A o \in Order : twin'[o] \in {NoTwin, twin[o]}
    BY <1>1
  <2>3. twin' \in [Order -> TwinType]
    BY <1>1, <2>1, NoTwinType
  <2>4. \A o \in Order : twin'[o].id <= Len(orders)
    BY <2>1, <2>2, NoTwinType
  <2> QED BY <1>2, <2>3, <2>4 DEF TwinTypes
<1>4. PassTypes'
  BY <1>1, <1>2 DEF PassTypes
<1>5. PICK r \in JobType : /\ job' = [job EXCEPT !["reconcile"] = r]
                           /\ \A k \in DOMAIN r.legs : r.make[r.legs[k]] > 0
  <2>1. PICK orphans \in SUBSET Order, later \in SUBSET Order :
                   \/ /\ job' = [job EXCEPT !["reconcile"] = [@ EXCEPT !.drop = orphans,
                                     !.ids = [o \in Order |-> IF o \in later THEN given[o] ELSE 0]]]
                   \/ /\ job' = [job EXCEPT !["reconcile"] = [Idle EXCEPT !.make =
                                     [o \in Order |-> IF twin'[o].id > 0 \/ o \in held THEN 0 ELSE known[o]]]]
    BY <1>1
  <2> DEFINE kept == [o \in Order |-> IF o \in later THEN given[o] ELSE 0]
             made == [o \in Order |-> IF twin'[o].id > 0 \/ o \in held THEN 0 ELSE known[o]]
  <2>2. /\ job["reconcile"] \in JobType
        /\ \A k \in DOMAIN job["reconcile"].legs : job["reconcile"].make[job["reconcile"].legs[k]] > 0
    BY <1>2 DEF JobTypes, Task
  <2>3. kept \in [Order -> Id]
    BY Sizes DEF Id
  <2>4. made \in Versions
    BY <1>2, Sizes DEF FeedTypes, Versions
  <2>5. CASE job' = [job EXCEPT !["reconcile"] = [@ EXCEPT !.drop = orphans, !.ids = kept]]
    <3> HIDE DEF kept
    <3> DEFINE r == [job["reconcile"] EXCEPT !.drop = orphans, !.ids = kept]
    <3>1. r \in JobType /\ r.legs = job["reconcile"].legs /\ r.make = job["reconcile"].make
      BY <2>2, <2>3 DEF JobType
    <3>2. job' = [job EXCEPT !["reconcile"] = r]
      BY <2>5
    <3> HIDE DEF r
    <3>3. \A k \in DOMAIN r.legs : r.make[r.legs[k]] > 0
      BY <2>2, <3>1
    <3> QED BY <3>1, <3>2, <3>3
  <2>6. CASE job' = [job EXCEPT !["reconcile"] = [Idle EXCEPT !.make = made]]
    <3> HIDE DEF made
    <3> DEFINE r == [Idle EXCEPT !.make = made]
    <3>1. r \in JobType /\ r.legs = <<>>
      BY <2>4, IdleType DEF JobType
    <3>2. job' = [job EXCEPT !["reconcile"] = r]
      BY <2>6
    <3> HIDE DEF r
    <3>3. \A k \in DOMAIN r.legs : r.make[r.legs[k]] > 0
      BY <3>1
    <3> QED BY <3>1, <3>2, <3>3
  <2> QED BY <2>1, <2>5, <2>6
<1>6. JobTypes'
  <2>1. job \in [Task -> JobType] /\ "reconcile" \in Task /\ "apply" \in Task /\ \A o \in job["apply"].edit : known[o] > 0
    BY <1>2 DEF JobTypes, Task
  <2>2. job'["apply"].edit = job["apply"].edit
    BY <1>5, <2>1
  <2>3. \A o \in job'["apply"].edit : known'[o] > 0
    BY <2>1, <2>2
  <2>4. \A k \in DOMAIN r.legs : r.make[r.legs[k]] > 0
    BY <1>5
  <2> QED BY <1>2, <1>5, <2>1, <2>3, <2>4, JobChanges
<1> QED BY <1>3, <1>4, <1>6

LEMMA ReconcileListedTypes == OrdersTypes /\ ReconcileListed => OrdersTypes'
<1> SUFFICES ASSUME OrdersTypes, ReconcileListed PROVE OrdersTypes'
  OBVIOUS
<1>1. /\ UNCHANGED <<lead, sock, wsok, look, known, missed, held, placing, cancels, edits, orders, causes, changes, up>>
      /\ \/ Walk([o \in Order |-> twin[o].id]) /\ UNCHANGED faults
         \/ Walk(None) /\ Fault
  BY DEF ReconcileListed, leaderVars, brokerVars
<1>2. [o \in Order |-> twin[o].id] \in [Order -> Id] /\ None \in [Order -> Id]
  BY Groups, Sizes DEF TwinTypes, TwinType, None, Id
<1>3. PICK given \in [Order -> Id] : Walk(given)
  BY <1>1, <1>2
<1>4. JobTypes' /\ PassTypes' /\ TwinTypes'
  BY <1>1, <1>3, WalkTypes
<1>5. faults' \in 0 .. MaxFaults
  BY <1>1, FaultTypes, Groups DEF BoundTypes
<1>6. BoundTypes'
  BY <1>1, <1>5, Groups DEF BoundTypes
<1> QED
  BY <1>1, <1>4, <1>6, TypesStay, Groups DEF OrdersTypes

LEMMA ReconcileGoesOnTypes == OrdersTypes /\ ReconcileGoesOn => OrdersTypes'
<1> SUFFICES ASSUME OrdersTypes, ReconcileGoesOn PROVE OrdersTypes'
  OBVIOUS
<1>1. /\ UNCHANGED <<lead, sock, wsok, look, known, missed, held, placing, cancels, edits, orders, causes, changes, faults, up>>
      /\ Walk(job["reconcile"].ids)
  BY DEF ReconcileGoesOn, leaderVars, brokerVars
<1>2. job["reconcile"].ids \in [Order -> Id]
  BY Groups DEF JobTypes, JobType, Task
<1>3. PICK given \in [Order -> Id] : Walk(given)
  BY <1>1, <1>2
<1>4. JobTypes' /\ PassTypes' /\ TwinTypes'
  BY <1>1, <1>3, WalkTypes
<1> QED
  BY <1>1, <1>4, TypesStay, Groups DEF OrdersTypes

LEMMA CancelAllTypes == OrdersTypes /\ CancelAll => OrdersTypes'
<1> SUFFICES ASSUME OrdersTypes, CancelAll PROVE OrdersTypes'
  OBVIOUS
<1> DEFINE found == {o \in Order : HasTwin(o)}
           r == [job["mirror"] EXCEPT !.drop = found]
<1>1. /\ UNCHANGED <<lead, sock, wsok, look, known, missed, twin, held, pass, alive, placing, cancels, edits, orders, causes, faults, up>>
      /\ Change
      /\ job' = [job EXCEPT !["mirror"] = r]
  BY DEF CancelAll, leaderVars, mirrorVars, brokerVars
<1>2. JobTypes
  BY Groups
<1>3. /\ job \in [Task -> JobType] /\ {"mirror", "apply"} \subseteq Task /\ job["mirror"] \in JobType
      /\ \A k \in DOMAIN job["mirror"].legs : job["mirror"].make[job["mirror"].legs[k]] > 0
      /\ \A o \in job["apply"].edit : known[o] > 0
  BY <1>2 DEF JobTypes, Task
<1>4. found \subseteq Order
  OBVIOUS
<1> HIDE DEF found
<1>5. r \in JobType /\ r.legs = job["mirror"].legs /\ r.make = job["mirror"].make
  BY <1>3, <1>4 DEF JobType
<1> HIDE DEF r
<1>6. job'["apply"].edit = job["apply"].edit
  BY <1>1, <1>3
<1>7. \A o \in job'["apply"].edit : known'[o] > 0
  BY <1>1, <1>3, <1>6
<1>8. \A k \in DOMAIN r.legs : r.make[r.legs[k]] > 0
  BY <1>3, <1>5
<1>9. JobTypes'
  BY <1>1, <1>2, <1>3, <1>5, <1>7, <1>8, JobChanges
<1>10. BoundTypes'
  BY <1>1, ChangeTypes, Groups DEF BoundTypes
<1> QED
  BY <1>1, <1>9, <1>10, TypesStay, Groups DEF OrdersTypes

LEMMA TwinFillsFacts ==
    ASSUME BrokerTypes, NEW i \in DOMAIN orders, TwinFills(i)
    PROVE  /\ UNCHANGED <<lead, sock, wsok, look, known, missed, twin, held, job, pass, alive, placing, cancels, edits, causes, faults, up>>
           /\ Change
           /\ orders' \in Seq(PlacedType) /\ Len(orders') = Len(orders) /\ DOMAIN orders' = DOMAIN orders
           /\ \A k \in DOMAIN orders : /\ orders'[k].order = orders[k].order
                                       /\ orders'[k].works => orders[k].works
<1> DEFINE after == [k \in DOMAIN orders |-> [orders[k] EXCEPT !.works = @ /\ k \notin {i, orders[i].oco}]]
<1>1. /\ UNCHANGED <<lead, sock, wsok, look, known, missed, twin, held, job, pass, alive, placing, cancels, edits, causes, faults, up>>
      /\ Change
      /\ orders' = after
  BY DEF TwinFills, leaderVars, mirrorVars
<1>2. orders \in Seq(PlacedType) /\ \A k \in DOMAIN orders : orders[k] \in PlacedType
  <2>1. orders \in Seq(PlacedType)
    BY DEF BrokerTypes
  <2> QED BY <2>1
<1>3. ASSUME NEW k \in DOMAIN orders
      PROVE  after[k] \in PlacedType /\ after[k].order = orders[k].order /\ (after[k].works => orders[k].works)
  <2>1. orders[k] \in PlacedType
    BY <1>2
  <2>2. (orders[k].works /\ k \notin {i, orders[i].oco}) \in BOOLEAN
    OBVIOUS
  <2> QED BY <2>1, <2>2 DEF PlacedType
<1>4. DOMAIN after = DOMAIN orders /\ after = [k \in DOMAIN orders |-> after[k]]
  OBVIOUS
<1> HIDE DEF after
<1>5. after \in Seq(PlacedType) /\ Len(after) = Len(orders)
  BY <1>2, <1>3, <1>4, OrdersChange
<1> QED BY <1>1, <1>3, <1>4, <1>5

LEMMA TwinFillsTypes == \A i : OrdersTypes /\ TwinFills(i) => OrdersTypes'
<1> SUFFICES ASSUME NEW i, OrdersTypes, TwinFills(i) PROVE OrdersTypes'
  OBVIOUS
<1>1. BrokerTypes /\ TwinTypes /\ PlacingTypes /\ RequestTypes /\ i \in DOMAIN orders
  BY Groups DEF TwinFills
<1>2. /\ UNCHANGED <<lead, sock, wsok, look, known, missed, twin, held, job, pass, alive, placing, cancels, edits, causes, faults, up>>
      /\ Change
      /\ orders' \in Seq(PlacedType) /\ Len(orders') = Len(orders)
  BY <1>1, TwinFillsFacts
<1>3. TwinTypes' /\ PlacingTypes' /\ BrokerTypes'
  BY <1>1, <1>2, OrdersKept
<1>4. RequestTypes'
  BY <1>1, <1>2 DEF RequestTypes
<1>5. BoundTypes'
  BY <1>2, ChangeTypes, Groups DEF BoundTypes
<1> QED
  BY <1>2, <1>3, <1>4, <1>5, TypesStay, Groups DEF OrdersTypes

LEMMA StopTypes == OrdersTypes /\ Stop => OrdersTypes'
<1> SUFFICES ASSUME OrdersTypes, Stop PROVE OrdersTypes'
  OBVIOUS
<1>1. /\ UNCHANGED <<lead, wsok, twin, held, placing, orders, causes, changes>> /\ Fault
      /\ up' = FALSE /\ sock' = NoLook /\ look' = <<>> /\ known' = None /\ missed' = {}
      /\ job' = [t \in Task |-> Idle] /\ pass' = "free" /\ alive' = {} /\ cancels' = {} /\ edits' = {}
  BY DEF Stop, brokerVars
<1>2. FeedTypes /\ BoundTypes
  BY Groups
<1>3. FeedTypes'
  BY <1>1, <1>2, Sizes, Sights DEF FeedTypes, NoLook, None, Versions
<1>4. JobTypes'
  <2>1. \A k \in DOMAIN Idle.legs : FALSE
    BY IdleType
  <2> QED BY <1>1, <2>1, IdleType DEF JobTypes, Task
<1>5. PassTypes' /\ RequestTypes'
  BY <1>1 DEF PassTypes, RequestTypes
<1>6. BoundTypes'
  BY <1>1, <1>2, FaultTypes DEF BoundTypes
<1> QED
  BY <1>1, <1>3, <1>4, <1>5, <1>6, TypesStay, Groups DEF OrdersTypes

LEMMA StartFacts ==
    ASSUME Start
    PROVE  /\ UNCHANGED <<lead, sock, look, known, missed, job, pass, alive, placing, cancels, edits, orders, causes, changes>>
           /\ wsok' \in Synced /\ up' = TRUE /\ held' = {} /\ placing.task = "nobody"
           /\ \/ /\ twin' = [o \in Order |-> IF HasTwin(o) /\ Working(twin[o].id) THEN twin[o] ELSE NoTwin]
                 /\ UNCHANGED faults
              \/ Fault /\ UNCHANGED twin
BY DEF Start, brokerVars

LEMMA StartTypes == OrdersTypes /\ Start => OrdersTypes'
<1> SUFFICES ASSUME OrdersTypes, Start PROVE OrdersTypes'
  OBVIOUS
<1>1. /\ UNCHANGED <<lead, sock, look, known, missed, job, pass, alive, placing, cancels, edits, orders, causes, changes>>
      /\ wsok' \in Synced /\ up' = TRUE /\ held' = {}
      /\ \/ /\ twin' = [o \in Order |-> IF HasTwin(o) /\ Working(twin[o].id) THEN twin[o] ELSE NoTwin]
            /\ UNCHANGED faults
         \/ Fault /\ UNCHANGED twin
  BY StartFacts
<1>2. FeedTypes /\ BoundTypes /\ TwinTypes /\ BrokerTypes
  BY Groups
<1>3. FeedTypes'
  BY <1>1, <1>2, Sizes DEF FeedTypes
<1>4. \A o \in Order : twin[o] \in TwinType /\ twin[o].id <= Len(orders) /\ Len(orders) \in Nat
  BY <1>2 DEF TwinTypes, BrokerTypes
<1>5. \A o \in Order : twin'[o] \in {NoTwin, twin[o]}
  BY <1>1, Zenon
<1>6. twin' \in [Order -> TwinType]
  <2>1. CASE twin' = [o \in Order |-> IF HasTwin(o) /\ Working(twin[o].id) THEN twin[o] ELSE NoTwin]
    BY <1>4, <2>1, NoTwinType
  <2>2. CASE twin' = twin
    BY <1>2, <2>2 DEF TwinTypes
  <2> QED BY <1>1, <2>1, <2>2
<1>7. TwinTypes'
  <2>1. \A o \in Order : twin'[o].id <= Len(orders)
    BY <1>4, <1>5, NoTwinType
  <2> QED BY <1>1, <1>6, <2>1 DEF TwinTypes
<1>8. BoundTypes'
  BY <1>1, <1>2, FaultTypes DEF BoundTypes
<1> QED
  BY <1>1, <1>3, <1>7, <1>8, TypesStay, Groups DEF OrdersTypes

\* One action after the other.
LEMMA Steps ==
    ASSUME Next
    PROVE  \/ Leader \/ ApplyPoll \/ ApplySoon \/ PollLooks
           \/ \E o \in Order : OnEntity(o) \/ ModifySent(o)
           \/ \E t \in Task : \/ \E o \in Order : CancelSent(t, o) \/ Consider(t, o)
                              \/ Place(t) \/ PlaceSkipped(t)
           \/ \E c \in cancels : CancelAnswered(c)
           \/ ModifyAnswered \/ PlaceAnswered
           \/ ReconcileReads \/ ReconcileListed \/ ReconcileGoesOn \/ CancelAll
           \/ \E i \in 1 .. MaxPlaced : TwinFills(i)
           \/ Stop \/ Start
<1>1. ASSUME NEW t \in Task, TaskStep(t)
      PROVE  \/ \E u \in Task : \/ \E o \in Order : CancelSent(u, o) \/ Consider(u, o)
                                \/ Place(u) \/ PlaceSkipped(u)
             \/ \E c \in cancels : CancelAnswered(c)
  BY <1>1, Zenon DEF TaskStep
<1>2. {"apply", "reconcile", "mirror"} \subseteq Task
  BY DEF Task
<1>3. \/ ApplyStep \/ ReconcileStep \/ TaskStep("mirror") \/ PollLooks \/ PlaceAnswered \/ Start
      \/ Environment
  BY DEF Next
<1>4. CASE ApplyStep
  BY <1>1, <1>2, <1>4, Zenon DEF ApplyStep
<1>5. CASE ReconcileStep
  BY <1>1, <1>2, <1>5, Zenon DEF ReconcileStep
<1>6. CASE TaskStep("mirror")
  BY <1>1, <1>2, <1>6, Zenon
<1>7. CASE Environment
  BY <1>7, Zenon DEF Environment
<1> QED BY <1>3, <1>4, <1>5, <1>6, <1>7, Zenon

LEMMA TypesKept == OrdersTypes /\ [Next]_vars => OrdersTypes'
<1> SUFFICES ASSUME OrdersTypes, [Next]_vars PROVE OrdersTypes'
  OBVIOUS
<1>1. CASE Next
  BY <1>1, Steps, LeaderTypes, ApplyPollTypes, ApplySoonTypes, PollTypes, OnEntityTypes,
     ModifySentTypes, CancelSentTypes, ConsiderTypes, PlaceTypes, PlaceSkippedTypes,
     CancelAnsweredTypes, ModifyAnsweredTypes, PlaceAnsweredTypes, ReconcileReadsTypes,
     ReconcileListedTypes, ReconcileGoesOnTypes, CancelAllTypes, TwinFillsTypes, StopTypes,
     StartTypes, Zenon
<1>2. CASE UNCHANGED vars
  BY <1>2, TypesStay, Groups
     DEF vars, leaderVars, mirrorVars, brokerVars, OrdersTypes
<1> QED BY <1>1, <1>2

-----------------------------------------------------------------------------
(* A working order the mirror has forgotten, and a second one for the same  *)
(* order of the leader, has a cause at its placement: for any number of     *)
(* orders, pairs, versions, placements, late answers and faults.            *)
(*                                                                          *)
(* ForgottenHasCause is not inductive: what drops a twin (the answer to a   *)
(* cancel, a walk through a list of the broker) or writes one back (the     *)
(* answer to a modification) acts on a number it read before. The invariant *)
(* is about the working orders that are not exposed: whatever names their   *)
(* leader order, a twin, a request or a walk, names them and no other, the  *)
(* list a walk uses has them, and what is being placed will be recorded     *)
(* under its own number and over no other.                                  *)

Clean(i) == Working(i) /\ i \notin Exposed
InPlacement(i) == placing.task # "nobody" /\ i >= placing.first
PlacingLegs == {placing.legs[k] : k \in DOMAIN placing.legs}
IdOf(o) == IF o = placing.legs[1] THEN placing.first ELSE placing.first + 1

\* The legs a task is about to place are different orders.
LegsDiffer ==
    \A t \in Task : \A j, k \in DOMAIN job[t].legs : job[t].legs[j] = job[t].legs[k] => j = k

\* An order being placed will be recorded under its number.
PlacingIsRecorded ==
    \A i \in DOMAIN orders : Clean(i) /\ InPlacement(i) =>
        placing.result = "taken" /\ orders[i].order \in PlacingLegs /\ i = IdOf(orders[i].order)

\* Nothing that works is recorded over.
PlacingIsNew ==
    placing.task # "nobody" /\ placing.result = "taken" =>
        \A i \in DOMAIN orders : Clean(i) /\ orders[i].order \in PlacingLegs => i >= placing.first

\* The twin of its leader order is this order; it may be missing while this is placed.
TwinIsThis ==
    \A i \in DOMAIN orders : Clean(i) =>
        \/ twin[orders[i].order].id = i
        \/ InPlacement(i) /\ twin[orders[i].order].id = 0

\* Requests about its leader order are about this order; a cancel has done what it says.
RequestsAreThis ==
    \A i \in DOMAIN orders : Clean(i) =>
        \A r \in cancels \cup edits : r.order = orders[i].order => r.id = i
CancelsTrue == \A c \in cancels : c.ok => ~Working(c.id)

\* The list a reconcile walks with has it, and the walk looks for no other number.
ListIsRecent == pass # "free" => \A i \in DOMAIN orders : Clean(i) => i \in alive
WalkIsThis ==
    pass = "items" => \A i \in DOMAIN orders : Clean(i) =>
        job["reconcile"].ids[orders[i].order] \in {0, i}

TwinInv ==
    /\ LegsDiffer /\ PlacingIsRecorded /\ PlacingIsNew /\ TwinIsThis /\ RequestsAreThis
    /\ CancelsTrue /\ ListIsRecent /\ WalkIsThis

LEMMA TwinsInit == Init => TwinInv
<1> SUFFICES ASSUME Init PROVE TwinInv
  OBVIOUS
<1>1. /\ orders = <<>> /\ placing.task = "nobody" /\ cancels = {} /\ edits = {} /\ pass = "free"
      /\ job = [t \in Task |-> Idle] /\ Idle.legs = <<>>
  BY DEF Init, NotPlacing, Idle
<1>2. DOMAIN orders = {}
  BY <1>1
<1> QED
  BY <1>1, <1>2 DEF TwinInv, LegsDiffer, PlacingIsRecorded, PlacingIsNew, TwinIsThis,
     RequestsAreThis, CancelsTrue, ListIsRecent, WalkIsThis

\* Numbers of twins and of requests are those of orders the broker has.
LEMMA Numbers ==
    ASSUME OrdersTypes
    PROVE  /\ DOMAIN orders = 1 .. Len(orders) /\ Len(orders) \in Nat
           /\ \A o \in Order : twin[o].id \in Nat /\ twin[o].id <= Len(orders)
           /\ \A r \in cancels \cup edits : r.order \in Order /\ r.id \in DOMAIN orders
           /\ \A i \in DOMAIN orders : orders[i].order \in Order /\ orders[i].works \in BOOLEAN
           /\ \A t \in Task : job[t].ids \in [Order -> Nat]
           /\ placing.first \in Nat
<1>1. /\ TwinTypes /\ RequestTypes /\ BrokerTypes /\ JobTypes /\ PlacingTypes
  BY Groups
<1>2. DOMAIN orders = 1 .. Len(orders) /\ Len(orders) \in Nat /\ \A i \in DOMAIN orders : orders[i] \in PlacedType
  <2>1. orders \in Seq(PlacedType)
    BY <1>1 DEF BrokerTypes
  <2> QED BY <2>1
<1>3. \A o \in Order : twin[o].id \in Nat /\ twin[o].id <= Len(orders)
  BY <1>1, Sizes DEF TwinTypes, TwinType, Id
<1>4. ASSUME NEW r \in cancels \cup edits PROVE r.order \in Order /\ r.id \in DOMAIN orders
  <2>1. r.order \in Order /\ r.id \in 1 .. MaxPlaced /\ r.id <= Len(orders)
    BY <1>1 DEF RequestTypes, CancelType, EditType
  <2> QED BY <1>2, <2>1, Sizes
<1>5. \A i \in DOMAIN orders : orders[i].order \in Order /\ orders[i].works \in BOOLEAN
  BY <1>2 DEF PlacedType
<1>6. \A t \in Task : job[t].ids \in [Order -> Nat]
  BY <1>1, Sizes DEF JobTypes, JobType, Id
<1>7. placing.first \in Nat
  BY <1>1 DEF PlacingTypes, PlacingType
<1> QED BY <1>2, <1>3, <1>4, <1>5, <1>6, <1>7

\* A step that places nothing: orders may stop working, requests about twins may go out,
\* and no twin that is one of these orders is lost.
LEMMA NothingNew ==
    ASSUME OrdersTypes, TwinInv,
           UNCHANGED <<placing, causes>>,
           DOMAIN orders' = DOMAIN orders,
           \A k \in DOMAIN orders : /\ orders'[k].order = orders[k].order
                                    /\ orders'[k].works => orders[k].works,
           \A i \in DOMAIN orders : Clean(i) =>
               twin'[orders[i].order].id \in {twin[orders[i].order].id, i},
           \A c \in cancels' : \/ c \in cancels
                               \/ /\ HasTwin(c.order) /\ c.id = twin[c.order].id
                                  /\ c.ok => ~orders'[c.id].works,
           \A e \in edits' : e \in edits \/ (HasTwin(e.order) /\ e.id = twin[e.order].id),
           LegsDiffer', ListIsRecent', WalkIsThis'
    PROVE  TwinInv'
<1>1. \A r \in cancels \cup edits : r.order \in Order /\ r.id \in DOMAIN orders
  BY Numbers
<1>2. \A i \in DOMAIN orders : (Clean(i)' => Clean(i)) /\ (Working(i)' => Working(i))
  BY DEF Clean, Working, Exposed, causes
<1>3. \A i : InPlacement(i)' <=> InPlacement(i)
  BY DEF InPlacement
<1>4. PlacingLegs' = PlacingLegs /\ \A o : IdOf(o)' = IdOf(o)
  BY DEF PlacingLegs, IdOf
<1>5. PlacingIsRecorded'
  BY <1>2, <1>3, <1>4 DEF TwinInv, PlacingIsRecorded
<1>6. PlacingIsNew'
  BY <1>2, <1>4 DEF TwinInv, PlacingIsNew
<1>7. TwinIsThis'
  BY <1>2, <1>3 DEF TwinInv, TwinIsThis
<1>8. RequestsAreThis'
  <2> SUFFICES ASSUME NEW i \in DOMAIN orders, Clean(i), NEW r \in cancels' \cup edits',
                      r.order = orders[i].order
               PROVE  r.id = i
    BY <1>2 DEF RequestsAreThis
  <2>1. CASE r \in cancels \cup edits
    BY <2>1 DEF TwinInv, RequestsAreThis
  <2>2. CASE HasTwin(r.order) /\ r.id = twin[r.order].id
    BY <2>2 DEF TwinInv, TwinIsThis, HasTwin
  <2> QED BY <2>1, <2>2
<1>9. CancelsTrue'
  BY <1>1, <1>2 DEF TwinInv, CancelsTrue, Working
<1> QED BY <1>5, <1>6, <1>7, <1>8, <1>9 DEF TwinInv

\* A step that leaves the broker and the requests alone and drops no such twin.
LEMMA TwinsDropped ==
    ASSUME OrdersTypes, TwinInv,
           UNCHANGED <<placing, orders, causes>>,
           \A i \in DOMAIN orders : Clean(i) =>
               twin'[orders[i].order].id \in {twin[orders[i].order].id, i},
           cancels' \subseteq cancels, edits' \subseteq edits,
           LegsDiffer', ListIsRecent', WalkIsThis'
    PROVE  TwinInv'
BY NothingNew

\* The list and the walk are as they were.
LEMMA SameWalk ==
    ASSUME TwinInv, UNCHANGED <<pass, alive, causes>>,
           DOMAIN orders' = DOMAIN orders,
           \A k \in DOMAIN orders : /\ orders'[k].order = orders[k].order
                                    /\ orders'[k].works => orders[k].works,
           job'["reconcile"].ids = job["reconcile"].ids
    PROVE  ListIsRecent' /\ WalkIsThis'
<1>1. \A i \in DOMAIN orders : Clean(i)' => Clean(i)
  BY DEF Clean, Working, Exposed, causes
<1> QED BY <1>1 DEF TwinInv, ListIsRecent, WalkIsThis

\* A step that changes nothing of the twins but what a task has yet to do.
LEMMA WorkOnly ==
    ASSUME OrdersTypes, TwinInv,
           UNCHANGED <<twin, placing, pass, alive, orders, causes, cancels, edits>>,
           LegsDiffer',
           job'["reconcile"].ids = job["reconcile"].ids
    PROVE  TwinInv'
<1>1. ListIsRecent' /\ WalkIsThis'
  BY SameWalk
<1> QED BY <1>1, TwinsDropped

\* What a task has to do changes; its legs are still different orders.
LEMMA OtherWork ==
    ASSUME OrdersTypes, TwinInv, NEW t \in Task, NEW r,
           job' = [job EXCEPT ![t] = r], r.ids = job[t].ids,
           \A j, k \in DOMAIN r.legs : r.legs[j] = r.legs[k] => j = k
    PROVE  LegsDiffer' /\ job'["reconcile"].ids = job["reconcile"].ids
<1>1. job \in [Task -> JobType] /\ "reconcile" \in Task
  BY Groups DEF JobTypes, Task
<1>2. \A u \in Task : job'[u] = IF u = t THEN r ELSE job[u]
  BY <1>1
<1>3. LegsDiffer
  BY DEF TwinInv
<1> QED BY <1>1, <1>2, <1>3 DEF LegsDiffer

LEMMA SameRecord ==
    ASSUME OrdersTypes, TwinInv, NEW t \in Task
    PROVE  job[t] \in JobType /\ \A j, k \in DOMAIN job[t].legs : job[t].legs[j] = job[t].legs[k] => j = k
BY Groups DEF JobTypes, TwinInv, LegsDiffer

LEMMA ApplyTwins == \A says : OrdersTypes /\ TwinInv /\ Apply(says) => TwinInv'
<1> SUFFICES ASSUME NEW says, OrdersTypes, TwinInv, Apply(says) PROVE TwinInv'
  OBVIOUS
<1> DEFINE gone == Gone(says)
           made == [o \in Order |-> IF known[o] = 0 THEN Fresh(says)[o] ELSE 0]
           changed == {o \in Order : known[o] > 0 /\ Fresh(says)[o] \notin {0, known[o]}}
           r == [job["apply"] EXCEPT !.drop = gone, !.make = made, !.edit = changed]
<1>1. /\ job' = [job EXCEPT !["apply"] = r]
      /\ UNCHANGED <<twin, placing, pass, alive, orders, causes, cancels, edits>>
  BY DEF Apply, brokerVars
<1> HIDE DEF gone, made, changed
<1>2. /\ "apply" \in Task /\ job["apply"] \in JobType
      /\ \A j, k \in DOMAIN job["apply"].legs : job["apply"].legs[j] = job["apply"].legs[k] => j = k
  BY SameRecord DEF Task
<1>3. r.ids = job["apply"].ids /\ r.legs = job["apply"].legs
  BY <1>2 DEF JobType
<1> HIDE DEF r
<1> QED BY <1>1, <1>2, <1>3, OtherWork, WorkOnly

LEMMA FeedTwins ==
    ASSUME OrdersTypes, TwinInv,
           UNCHANGED <<twin, placing, pass, alive, orders, causes, cancels, edits, job>>
    PROVE  TwinInv'
<1>1. LegsDiffer'
  BY DEF TwinInv, LegsDiffer
<1> QED BY <1>1, WorkOnly

LEMMA ConsiderTwins ==
    \A t \in Task, o \in Order : OrdersTypes /\ TwinInv /\ Consider(t, o) => TwinInv'
<1> SUFFICES ASSUME NEW t \in Task, NEW o \in Order, OrdersTypes, TwinInv, Consider(t, o) PROVE TwinInv'
  OBVIOUS
<1>1. /\ UNCHANGED <<twin, placing, pass, alive, orders, causes, cancels, edits>>
      /\ \/ \E legs \in {<<o>>} \cup {<<o, p>> : p \in Other(t, o)} : job' = [job EXCEPT ![t].legs = legs]
         \/ job' = [job EXCEPT ![t].make[o] = 0]
  BY DEF Consider, mirrorVars, brokerVars
<1>2. \A p \in Other(t, o) : p # o
  BY Sizes DEF Other
<1>3. job[t] \in JobType /\ \A j, k \in DOMAIN job[t].legs : job[t].legs[j] = job[t].legs[k] => j = k
  BY SameRecord
<1>4. ASSUME NEW legs \in {<<o>>} \cup {<<o, p>> : p \in Other(t, o)}, job' = [job EXCEPT ![t].legs = legs]
      PROVE  TwinInv'
  <2> DEFINE r == [job[t] EXCEPT !.legs = legs]
  <2>1. job' = [job EXCEPT ![t] = r]
    BY <1>4
  <2>2. r.ids = job[t].ids /\ r.legs = legs
    BY <1>3 DEF JobType
  <2>3. \A j, k \in DOMAIN legs : legs[j] = legs[k] => j = k
    BY <1>2
  <2> HIDE DEF r
  <2>4. LegsDiffer' /\ job'["reconcile"].ids = job["reconcile"].ids
    BY <2>1, <2>2, <2>3, OtherWork
  <2> QED BY <1>1, <2>4, WorkOnly
<1>5. CASE job' = [job EXCEPT ![t].make[o] = 0]
  <2> DEFINE r == [job[t] EXCEPT !.make = [@ EXCEPT ![o] = 0]]
  <2>1. job' = [job EXCEPT ![t] = r]
    BY <1>5
  <2>2. r.ids = job[t].ids /\ r.legs = job[t].legs
    BY <1>3 DEF JobType
  <2> HIDE DEF r
  <2>3. LegsDiffer' /\ job'["reconcile"].ids = job["reconcile"].ids
    BY <1>3, <2>1, <2>2, OtherWork
  <2> QED BY <1>1, <2>3, WorkOnly
<1> QED BY <1>1, <1>4, <1>5

\* Legs that are done with, and those of the other tasks, are different orders.
LEMMA StillDiffer ==
    ASSUME TwinInv, \A u \in Task : job'[u].legs \in {<<>>, job[u].legs}
    PROVE  LegsDiffer'
<1>1. LegsDiffer
  BY DEF TwinInv
<1> SUFFICES ASSUME NEW u \in Task
             PROVE  \A j, k \in DOMAIN job'[u].legs : job'[u].legs[j] = job'[u].legs[k] => j = k
  BY DEF LegsDiffer
<1>2. CASE job'[u].legs = <<>>
  BY <1>2
<1>3. CASE job'[u].legs = job[u].legs
  BY <1>1, <1>3 DEF LegsDiffer
<1> QED BY <1>2, <1>3

LEMMA PlaceSkippedTwins == \A t \in Task : OrdersTypes /\ TwinInv /\ PlaceSkipped(t) => TwinInv'
<1> SUFFICES ASSUME NEW t \in Task, OrdersTypes, TwinInv, PlaceSkipped(t) PROVE TwinInv'
  OBVIOUS
<1>1. /\ UNCHANGED <<known, twin, placing, pass, alive, orders, causes, cancels, edits>>
      /\ job' = [job EXCEPT ![t].legs = <<>>, ![t].make = [o \in Order |-> IF o \in Legs(t) THEN 0 ELSE @[o]]]
  BY DEF PlaceSkipped, mirrorVars, brokerVars
<1>2. job'[t].legs = <<>> /\ job'[t].ids = job[t].ids /\ \A u \in Task : u # t => job'[u] = job[u]
  BY <1>1, LegsDoneTypes, Groups
<1>3. \A u \in Task : job'[u].legs \in {<<>>, job[u].legs} /\ job'[u].ids = job[u].ids
  BY <1>2
<1>4. LegsDiffer'
  BY <1>3, StillDiffer
<1> QED BY <1>1, <1>3, <1>4, WorkOnly DEF Task

LEMMA CancelAllTwins == OrdersTypes /\ TwinInv /\ CancelAll => TwinInv'
<1> SUFFICES ASSUME OrdersTypes, TwinInv, CancelAll PROVE TwinInv'
  OBVIOUS
<1> DEFINE found == {o \in Order : HasTwin(o)}
           r == [job["mirror"] EXCEPT !.drop = found]
<1>1. /\ UNCHANGED <<twin, placing, pass, alive, orders, causes, cancels, edits>>
      /\ job' = [job EXCEPT !["mirror"] = r]
  BY DEF CancelAll, mirrorVars, brokerVars
<1> HIDE DEF found
<1>2. /\ "mirror" \in Task /\ job["mirror"] \in JobType
      /\ \A j, k \in DOMAIN job["mirror"].legs : job["mirror"].legs[j] = job["mirror"].legs[k] => j = k
  BY SameRecord DEF Task
<1>3. r.ids = job["mirror"].ids /\ r.legs = job["mirror"].legs
  BY <1>2 DEF JobType
<1> HIDE DEF r
<1> QED BY <1>1, <1>2, <1>3, OtherWork, WorkOnly

LEMMA CancelSentTwins ==
    \A t \in Task, o \in Order : OrdersTypes /\ TwinInv /\ CancelSent(t, o) => TwinInv'
<1> SUFFICES ASSUME NEW t \in Task, NEW o \in Order, OrdersTypes, TwinInv, CancelSent(t, o) PROVE TwinInv'
  OBVIOUS
<1> DEFINE r == [job[t] EXCEPT !.drop = @ \ {o}]
           c(b) == [task |-> t, order |-> o, id |-> twin[o].id, ok |-> b]
<1>1. /\ UNCHANGED <<twin, placing, pass, alive, causes, edits>>
      /\ job' = [job EXCEPT ![t] = r]
      /\ IF ~HasTwin(o)
         THEN UNCHANGED <<cancels, orders, faults>>
         ELSE \/ /\ cancels' = cancels \cup {c(Working(twin[o].id))}
                 /\ orders' = Cancelled(twin[o].id)
                 /\ UNCHANGED faults
              \/ /\ Fault
                 /\ cancels' = cancels \cup {c(FALSE)}
                 /\ orders' \in {orders, Cancelled(twin[o].id)}
              \/ Fault /\ UNCHANGED <<cancels, orders>>
  BY DEF CancelSent, mirrorVars
<1>2. job[t] \in JobType /\ \A j, k \in DOMAIN job[t].legs : job[t].legs[j] = job[t].legs[k] => j = k
  BY SameRecord
<1>3. r.ids = job[t].ids /\ r.legs = job[t].legs
  BY <1>2 DEF JobType
<1> HIDE DEF r
<1>4. LegsDiffer' /\ job'["reconcile"].ids = job["reconcile"].ids
  BY <1>1, <1>2, <1>3, OtherWork
<1>5. \A b : c(b).order = o /\ c(b).id = twin[o].id /\ c(b).ok = b
  OBVIOUS
<1> HIDE DEF c
<1>6. orders' \in {orders, Cancelled(twin[o].id)}
  BY <1>1
<1>7. /\ DOMAIN orders' = DOMAIN orders
      /\ \A k \in DOMAIN orders : /\ orders'[k].order = orders[k].order
                                  /\ orders'[k].works => orders[k].works
  <2>1. orders \in Seq(PlacedType) /\ \A k \in DOMAIN orders : orders[k] \in PlacedType
    <3>1. orders \in Seq(PlacedType)
      BY Groups DEF BrokerTypes
    <3> QED BY <3>1
  <2>2. CASE orders' = Cancelled(twin[o].id)
    BY <2>1, <2>2 DEF Cancelled, PlacedType
  <2> QED BY <1>6, <2>2
<1>8. \A q \in cancels' : \/ q \in cancels
                          \/ /\ HasTwin(q.order) /\ q.id = twin[q.order].id
                             /\ q.ok => ~orders'[q.id].works
  <2>1. CASE HasTwin(o) /\ cancels' = cancels \cup {c(Working(twin[o].id))} /\ orders' = Cancelled(twin[o].id)
    <3>1. ~orders'[twin[o].id].works
      <4>1. twin[o].id \in DOMAIN orders
        BY <2>1, Numbers DEF HasTwin
      <4>2. orders[twin[o].id] \in PlacedType
        <5>1. orders \in Seq(PlacedType)
          BY Groups DEF BrokerTypes
        <5> QED BY <4>1, <5>1
      <4> QED BY <2>1, <4>1, <4>2 DEF Cancelled, PlacedType
    <3> QED BY <1>5, <2>1, <3>1
  <2>2. CASE HasTwin(o) /\ cancels' = cancels \cup {c(FALSE)}
    BY <1>5, <2>2
  <2>3. CASE cancels' = cancels
    BY <2>3
  <2> QED BY <1>1, <2>1, <2>2, <2>3
<1>9. ListIsRecent' /\ WalkIsThis'
  BY <1>1, <1>4, <1>7, SameWalk
<1> QED BY <1>1, <1>4, <1>7, <1>8, <1>9, NothingNew

LEMMA ModifySentTwins == \A o \in Order : OrdersTypes /\ TwinInv /\ ModifySent(o) => TwinInv'
<1> SUFFICES ASSUME NEW o \in Order, OrdersTypes, TwinInv, ModifySent(o) PROVE TwinInv'
  OBVIOUS
<1> DEFINE r == [job["apply"] EXCEPT !.edit = @ \ {o}]
           changed == [orders EXCEPT ![twin[o].id].version = IF Working(twin[o].id) THEN known[o] ELSE @]
           e(b) == [order |-> o, id |-> twin[o].id, version |-> known[o], ok |-> b]
<1>1. /\ UNCHANGED <<twin, placing, pass, alive, cancels, causes>>
      /\ job' = [job EXCEPT !["apply"] = r]
      /\ \/ UNCHANGED <<orders, edits>>
         \/ /\ HasTwin(o)
            /\ orders' \in {orders, changed}
            /\ \E ok \in BOOLEAN : edits' = {e(ok)}
  BY ModifySentFacts
<1>2. /\ "apply" \in Task /\ job["apply"] \in JobType
      /\ \A j, k \in DOMAIN job["apply"].legs : job["apply"].legs[j] = job["apply"].legs[k] => j = k
  BY SameRecord DEF Task
<1>3. r.ids = job["apply"].ids /\ r.legs = job["apply"].legs
  BY <1>2 DEF JobType
<1> HIDE DEF r
<1>3a. \A j, k \in DOMAIN r.legs : r.legs[j] = r.legs[k] => j = k
  BY <1>2, <1>3
<1>3b. job' = [job EXCEPT !["apply"] = r]
  BY <1>1
<1>4. LegsDiffer' /\ job'["reconcile"].ids = job["reconcile"].ids
  BY <1>2, <1>3, <1>3a, <1>3b, OtherWork
<1>5. /\ DOMAIN orders' = DOMAIN orders
      /\ \A k \in DOMAIN orders : /\ orders'[k].order = orders[k].order
                                  /\ orders'[k].works => orders[k].works
  <2>1. orders \in Seq(PlacedType) /\ \A k \in DOMAIN orders : orders[k] \in PlacedType
    <3>1. orders \in Seq(PlacedType)
      BY Groups DEF BrokerTypes
    <3> QED BY <3>1
  <2>2. DOMAIN changed = DOMAIN orders
    BY <2>1
  <2>3. ASSUME NEW k \in DOMAIN orders
        PROVE  changed[k].order = orders[k].order /\ changed[k].works = orders[k].works
    <3>1. CASE k = twin[o].id
      <4>1. changed[k] = [orders[k] EXCEPT !.version = IF Working(twin[o].id) THEN known[o] ELSE @]
        BY <2>1, <3>1
      <4> QED BY <2>1, <4>1 DEF PlacedType
    <3>2. CASE k # twin[o].id
      BY <2>1, <3>2
    <3> QED BY <3>1, <3>2
  <2> HIDE DEF changed
  <2> QED BY <1>1, <2>2, <2>3
<1> HIDE DEF changed
<1>6. \A q \in edits' : q \in edits \/ (HasTwin(q.order) /\ q.id = twin[q.order].id)
  BY <1>1
<1> HIDE DEF e
<1>7. ListIsRecent' /\ WalkIsThis'
  BY <1>1, <1>4, <1>5, SameWalk
<1> QED BY <1>1, <1>4, <1>5, <1>6, <1>7, NothingNew

LEMMA TwinFillsTwins == \A i : OrdersTypes /\ TwinInv /\ TwinFills(i) => TwinInv'
<1> SUFFICES ASSUME NEW i, OrdersTypes, TwinInv, TwinFills(i) PROVE TwinInv'
  OBVIOUS
<1>1. BrokerTypes /\ i \in DOMAIN orders
  BY Groups DEF TwinFills
<1>2. /\ UNCHANGED <<twin, job, pass, alive, placing, cancels, edits, causes>>
      /\ DOMAIN orders' = DOMAIN orders
      /\ \A k \in DOMAIN orders : /\ orders'[k].order = orders[k].order
                                  /\ orders'[k].works => orders[k].works
  BY <1>1, TwinFillsFacts
<1>3. LegsDiffer'
  BY <1>2 DEF TwinInv, LegsDiffer
<1>4. ListIsRecent' /\ WalkIsThis'
  BY <1>2, SameWalk
<1> QED BY <1>2, <1>3, <1>4, NothingNew

LEMMA CancelAnsweredTwins == \A c \in cancels : OrdersTypes /\ TwinInv /\ CancelAnswered(c) => TwinInv'
<1> SUFFICES ASSUME NEW c \in cancels, OrdersTypes, TwinInv, CancelAnswered(c) PROVE TwinInv'
  OBVIOUS
<1>1. /\ UNCHANGED <<placing, job, pass, alive, orders, causes, edits>> /\ cancels' \subseteq cancels
      /\ (twin' = [twin EXCEPT ![c.order] = NoTwin] /\ (c.ok \/ ~Working(c.id))) \/ twin' = twin
  BY DEF CancelAnswered, brokerVars
<1>2. \A i \in DOMAIN orders : Clean(i) => twin'[orders[i].order].id = twin[orders[i].order].id
  <2>1. CASE twin' = twin
    BY <2>1
  <2>2. CASE twin' = [twin EXCEPT ![c.order] = NoTwin] /\ (c.ok \/ ~Working(c.id))
    <3>1. ~Working(c.id)
      BY <2>2 DEF TwinInv, CancelsTrue
    <3>2. \A i \in DOMAIN orders : Clean(i) => orders[i].order # c.order
      BY <3>1 DEF TwinInv, RequestsAreThis, Clean
    <3> QED BY <2>2, <3>2
  <2> QED BY <1>1, <2>1, <2>2
<1>3. LegsDiffer'
  BY <1>1 DEF TwinInv, LegsDiffer
<1>4. ListIsRecent' /\ WalkIsThis'
  BY <1>1, SameWalk
<1> QED BY <1>1, <1>2, <1>3, <1>4, TwinsDropped

LEMMA PlaceTwins == \A t \in Task : OrdersTypes /\ TwinInv /\ Place(t) => TwinInv'
<1> SUFFICES ASSUME NEW t \in Task, OrdersTypes, TwinInv, Place(t) PROVE TwinInv'
  OBVIOUS
<1> DEFINE legs == job[t].legs
           n == Len(orders)
<1>1. /\ UNCHANGED <<twin, job, pass, alive, cancels, edits>>
      /\ legs # <<>> /\ placing.task = "nobody" /\ ~HasTwin(legs[1])
      /\ n + Len(legs) <= MaxPlaced
  BY PlaceFacts
<1>2. PICK result \in {"taken", "refused", "lost"} :
                /\ placing' = [task |-> t, legs |-> job[t].legs, versions |-> job[t].make,
                               first |-> Len(orders) + 1, result |-> result]
                /\ \/ /\ result # "refused"
                      /\ orders' = orders \o Placed(t)
                      /\ stray' = IF result = "lost" THEN stray \cup NewOnes ELSE stray
                      /\ beside' = IF Unanswered THEN beside \cup NewOnes ELSE beside
                      /\ doubled' = doubled \cup {twin[o].id : o \in Again(t)}
                                       \cup {i \in NewOnes : orders'[i].order \in Again(t)}
                   \/ result # "taken" /\ UNCHANGED <<orders, causes>>
  BY PlaceFacts
<1>3. /\ DOMAIN orders = 1 .. n /\ n \in Nat /\ \A i \in DOMAIN orders : orders[i].order \in Order
  BY Numbers
<1>4. /\ legs \in LegsType /\ Len(legs) \in {1, 2} /\ DOMAIN legs = 1 .. Len(legs)
      /\ \A j, k \in DOMAIN legs : legs[j] = legs[k] => j = k
      /\ \A k \in DOMAIN legs : legs[k] \in Order
  <2>1. legs \in LegsType
    BY SameRecord DEF JobType
  <2>2. \A j, k \in DOMAIN legs : legs[j] = legs[k] => j = k
    BY SameRecord
  <2> QED BY <1>1, <2>1, <2>2, LegsShape
<1>5. /\ placing'.task # "nobody" /\ placing'.legs = legs /\ placing'.first = n + 1
      /\ placing'.result = result
  BY <1>2 DEF Task
<1>6. PlacingLegs' = {legs[k] : k \in 1 .. Len(legs)} /\ PlacingLegs' = Legs(t)
  BY <1>4, <1>5 DEF PlacingLegs, Legs
\* what was there, and what is new
<1>7. /\ DOMAIN orders \subseteq DOMAIN orders' /\ \A i \in DOMAIN orders : orders'[i] = orders[i]
      /\ stray \subseteq stray' /\ beside \subseteq beside' /\ doubled \subseteq doubled'
  <2>1. CASE UNCHANGED <<orders, causes>>
    BY <2>1 DEF causes
  <2>2. CASE /\ orders' = orders \o Placed(t)
             /\ stray' = IF result = "lost" THEN stray \cup NewOnes ELSE stray
             /\ beside' = IF Unanswered THEN beside \cup NewOnes ELSE beside
             /\ doubled' = doubled \cup {twin[o].id : o \in Again(t)}
                              \cup {i \in NewOnes : orders'[i].order \in Again(t)}
    <3>1. /\ orders' \in Seq(PlacedType) /\ Len(orders') = n + Len(legs)
          /\ \A i \in DOMAIN orders : orders'[i] = orders[i]
      BY <1>1, <2>2, PlacedTypes, Groups
    <3>2. DOMAIN orders \subseteq DOMAIN orders'
      BY <1>3, <1>4, <3>1
    <3> HIDE DEF legs, n
    <3> QED BY <2>2, <3>1, <3>2
  <2> QED BY <1>2, <2>1, <2>2
<1>8. \A i \in DOMAIN orders' \ DOMAIN orders :
        \E k \in 1 .. Len(legs) : i = n + k /\ orders'[i].order = legs[k]
  <2>1. CASE orders' = orders
    BY <2>1
  <2>2. CASE orders' = orders \o Placed(t)
    <3>1. /\ orders' \in Seq(PlacedType) /\ Len(orders') = n + Len(legs)
          /\ \A k \in 1 .. Len(legs) : orders'[n + k].order = legs[k]
      BY <1>1, <2>2, PlacedTypes, Groups
    <3>2. \A i \in DOMAIN orders' \ DOMAIN orders : i - n \in 1 .. Len(legs) /\ i = n + (i - n)
      BY <1>3, <1>4, <3>1
    <3> HIDE DEF legs, n
    <3> QED BY <3>1, <3>2
  <2> QED BY <1>2, <2>1, <2>2
<1>9. \A i \in DOMAIN orders : Clean(i)' => Clean(i)
  BY <1>7 DEF Clean, Working, Exposed
<1>10. ASSUME NEW i \in DOMAIN orders' \ DOMAIN orders, Clean(i)'
       PROVE  result = "taken" /\ ~Unanswered /\ ~HasTwin(orders'[i].order)
  <2>1. i \in NewOnes /\ i \notin stray' /\ i \notin beside' /\ i \notin doubled'
    BY <1>10 DEF NewOnes, Clean, Exposed
  <2>2. /\ result # "refused"
        /\ stray' = IF result = "lost" THEN stray \cup NewOnes ELSE stray
        /\ beside' = IF Unanswered THEN beside \cup NewOnes ELSE beside
        /\ {k \in NewOnes : orders'[k].order \in Again(t)} \subseteq doubled'
    <3>1. orders' # orders
      BY <1>10
    <3> QED BY <1>2, <3>1
  <2>3. orders'[i].order \notin Again(t)
    BY <2>1, <2>2
  <2>4. orders'[i].order \in Legs(t)
    BY <1>6, <1>8
  <2>5. ~HasTwin(orders'[i].order)
    BY <1>1, <2>3, <2>4 DEF Again
  <2>6. result # "lost" /\ ~Unanswered
    BY <2>1, <2>2
  <2> QED BY <2>2, <2>5, <2>6
<1> HIDE DEF legs, n
<1>11. LegsDiffer'
  BY <1>1 DEF TwinInv, LegsDiffer
<1>12. \A i \in DOMAIN orders : ~(i >= n + 1)
  BY <1>3
<1>13. \A i \in DOMAIN orders' \ DOMAIN orders : i >= n + 1
  BY <1>3, <1>4, <1>8
<1>14. PlacingIsRecorded'
  <2> SUFFICES ASSUME NEW i \in DOMAIN orders', Clean(i)', InPlacement(i)'
               PROVE  /\ result = "taken" /\ orders'[i].order \in PlacingLegs'
                      /\ i = IF orders'[i].order = legs[1] THEN n + 1 ELSE n + 1 + 1
    BY <1>5 DEF PlacingIsRecorded, IdOf
  <2>1. i \notin DOMAIN orders
    BY <1>5, <1>12 DEF InPlacement
  <2>2. PICK k \in 1 .. Len(legs) : i = n + k /\ orders'[i].order = legs[k]
    BY <1>8, <2>1
  <2>4. k \in {1, 2} /\ 1 \in DOMAIN legs /\ k \in DOMAIN legs
    BY <1>4
  <2>5. (legs[k] = legs[1]) <=> k = 1
    BY <1>4, <2>4
  <2>6. i = IF orders'[i].order = legs[1] THEN n + 1 ELSE n + 1 + 1
    BY <1>3, <2>2, <2>4, <2>5
  <2> QED BY <1>6, <1>10, <2>1, <2>2, <2>6
<1>15. PlacingIsNew'
  <2> SUFFICES ASSUME result = "taken", NEW i \in DOMAIN orders', Clean(i)',
                      orders'[i].order \in Legs(t)
               PROVE  i >= n + 1
    BY <1>5, <1>6 DEF PlacingIsNew
  <2>1. CASE i \in DOMAIN orders
    <3>1. twin[orders[i].order].id = i /\ i > 0
      BY <1>1, <1>3, <1>9, <2>1 DEF TwinInv, TwinIsThis, InPlacement
    <3>2. HasTwin(orders[i].order) /\ orders[i].order \in Legs(t)
      BY <1>7, <2>1, <3>1 DEF HasTwin
    <3>3. orders[i].order \in Again(t)
      BY <1>1, <3>2 DEF Again, legs
    <3>4. i \in doubled'
      BY <1>2, <3>1, <3>3
    <3> QED BY <3>4 DEF Clean, Exposed
  <2>2. CASE i \notin DOMAIN orders
    BY <1>13, <2>2
  <2> QED BY <2>1, <2>2
<1>16. TwinIsThis'
  <2> SUFFICES ASSUME NEW i \in DOMAIN orders', Clean(i)'
               PROVE  \/ twin'[orders'[i].order].id = i
                      \/ InPlacement(i)' /\ twin'[orders'[i].order].id = 0
    BY DEF TwinIsThis
  <2>1. CASE i \in DOMAIN orders
    BY <1>1, <1>7, <1>9, <2>1 DEF TwinInv, TwinIsThis, InPlacement
  <2>2. CASE i \notin DOMAIN orders
    <3>1. InPlacement(i)' /\ ~HasTwin(orders'[i].order)
      BY <1>5, <1>10, <1>13, <2>2 DEF InPlacement
    <3>2. orders'[i].order \in Order
      BY <1>4, <1>8, <2>2
    <3>3. twin[orders'[i].order].id = 0
      BY <3>1, <3>2, Numbers DEF HasTwin
    <3> QED BY <1>1, <3>1, <3>3
  <2> QED BY <2>1, <2>2
<1>17. RequestsAreThis'
  <2> SUFFICES ASSUME NEW i \in DOMAIN orders', Clean(i)', NEW q \in cancels \cup edits,
                      q.order = orders'[i].order
               PROVE  q.id = i
    BY <1>1 DEF RequestsAreThis
  <2>1. CASE i \in DOMAIN orders
    BY <1>7, <1>9, <2>1 DEF TwinInv, RequestsAreThis
  <2>2. CASE i \notin DOMAIN orders
    BY <1>10, <2>2 DEF Unanswered
  <2> QED BY <2>1, <2>2
<1>18. CancelsTrue'
  <2>1. \A c \in cancels : c.id \in DOMAIN orders
    BY Numbers
  <2> QED BY <1>1, <1>7, <2>1 DEF TwinInv, CancelsTrue, Working
<1>19. ListIsRecent'
  BY <1>1, <1>9, <1>10 DEF TwinInv, ListIsRecent, Unanswered
<1>20. WalkIsThis'
  BY <1>1, <1>7, <1>9, <1>10 DEF TwinInv, WalkIsThis, Unanswered
<1> QED BY <1>11, <1>14, <1>15, <1>16, <1>17, <1>18, <1>19, <1>20 DEF TwinInv

LEMMA PlaceAnsweredTwins == OrdersTypes /\ TwinInv /\ PlaceAnswered => TwinInv'
<1> SUFFICES ASSUME OrdersTypes, TwinInv, PlaceAnswered PROVE TwinInv'
  OBVIOUS
<1>1. /\ UNCHANGED <<known, pass, alive, cancels, edits, orders, causes>>
      /\ placing.task # "nobody" /\ placing' = NotPlacing
      /\ twin' = [o \in Order |-> IF placing.result = "taken" /\ o \in PlacingLegs
                    THEN [id |-> IdOf(o), version |-> placing.versions[o]] ELSE twin[o]]
      /\ job' = job \/ job' = [job EXCEPT ![placing.task].legs = <<>>,
                           ![placing.task].make = [o \in Order |-> IF o \in PlacingLegs THEN 0 ELSE @[o]]]
  BY DEF PlaceAnswered, brokerVars, PlacingLegs, IdOf
<1>2. placing.task \in Task
  BY <1>1, Groups DEF PlacingTypes, PlacingType
<1>3. \A u \in Task : job'[u].legs \in {<<>>, job[u].legs} /\ job'[u].ids = job[u].ids
  <2>1. CASE job' = [job EXCEPT ![placing.task].legs = <<>>,
                       ![placing.task].make = [o \in Order |-> IF o \in PlacingLegs THEN 0 ELSE @[o]]]
    <3>1. /\ job'[placing.task].legs = <<>> /\ job'[placing.task].ids = job[placing.task].ids
          /\ \A u \in Task : u # placing.task => job'[u] = job[u]
      BY <1>1, <1>2, <2>1, LegsDoneTypes, Groups
    <3> QED BY <3>1
  <2> QED BY <1>1, <2>1
<1>4. LegsDiffer'
  BY <1>3, StillDiffer
<1>5. \A i \in DOMAIN orders : Clean(i)' <=> Clean(i)
  BY <1>1 DEF Clean, Working, Exposed, causes
<1>6. placing'.task = "nobody"
  BY <1>1 DEF NotPlacing
<1>7. PlacingIsRecorded' /\ PlacingIsNew'
  BY <1>6 DEF PlacingIsRecorded, PlacingIsNew, InPlacement
<1>8. \A i \in DOMAIN orders : orders[i].order \in Order
  BY Numbers
<1>9. ASSUME NEW i \in DOMAIN orders, Clean(i) PROVE twin'[orders[i].order].id = i
  <2>1. CASE placing.result = "taken" /\ orders[i].order \in PlacingLegs
    <3>1. InPlacement(i)
      BY <1>1, <1>9, <2>1 DEF TwinInv, PlacingIsNew, InPlacement
    <3>2. i = IdOf(orders[i].order)
      BY <1>9, <3>1 DEF TwinInv, PlacingIsRecorded
    <3> QED BY <1>1, <1>8, <2>1, <3>2
  <2>2. CASE ~(placing.result = "taken" /\ orders[i].order \in PlacingLegs)
    <3>1. ~InPlacement(i)
      BY <1>9, <2>2 DEF TwinInv, PlacingIsRecorded
    <3>2. twin[orders[i].order].id = i
      BY <1>9, <3>1 DEF TwinInv, TwinIsThis
    <3> QED BY <1>1, <1>8, <2>2, <3>2
  <2> QED BY <2>1, <2>2
<1>10. TwinIsThis'
  BY <1>1, <1>5, <1>9 DEF TwinIsThis
<1>11. RequestsAreThis' /\ CancelsTrue'
  BY <1>1, <1>5 DEF TwinInv, RequestsAreThis, CancelsTrue, Working
<1>12. ListIsRecent'
  BY <1>1, <1>5 DEF TwinInv, ListIsRecent
<1>13. WalkIsThis'
  BY <1>1, <1>3, <1>5 DEF TwinInv, WalkIsThis, Task
<1> QED BY <1>4, <1>7, <1>10, <1>11, <1>12, <1>13 DEF TwinInv

LEMMA ModifyAnsweredTwins == OrdersTypes /\ TwinInv /\ ModifyAnswered => TwinInv'
<1> SUFFICES ASSUME OrdersTypes, TwinInv, ModifyAnswered PROVE TwinInv'
  OBVIOUS
<1>1. PICK e \in edits :
        /\ edits' = edits \ {e}
        /\ twin' = IF e.ok THEN [twin EXCEPT ![e.order] = [id |-> e.id, version |-> e.version]] ELSE twin
        /\ UNCHANGED <<job, pass, alive, placing, cancels, orders, causes>>
  BY DEF ModifyAnswered, brokerVars
<1>2. \A o \in Order : twin'[o].id = twin[o].id \/ (o = e.order /\ twin'[o].id = e.id)
  BY <1>1, Groups DEF TwinTypes
<1>3. \A i \in DOMAIN orders : orders[i].order \in Order
  BY Numbers
<1>4. \A i \in DOMAIN orders : Clean(i) => twin'[orders[i].order].id \in {twin[orders[i].order].id, i}
  BY <1>2, <1>3 DEF TwinInv, RequestsAreThis
<1>5. LegsDiffer'
  BY <1>1 DEF TwinInv, LegsDiffer
<1>6. ListIsRecent' /\ WalkIsThis'
  BY <1>1, SameWalk
<1> QED BY <1>1, <1>4, <1>5, <1>6, TwinsDropped

LEMMA ReconcileReadsTwins == OrdersTypes /\ TwinInv /\ ReconcileReads => TwinInv'
<1> SUFFICES ASSUME OrdersTypes, TwinInv, ReconcileReads PROVE TwinInv'
  OBVIOUS
<1>1. /\ UNCHANGED <<twin, job, placing, cancels, edits, orders, causes>>
      /\ pass' = "read" /\ alive' = {i \in DOMAIN orders : Working(i)}
  BY DEF ReconcileReads, mirrorVars, brokerVars
<1>2. LegsDiffer'
  BY <1>1 DEF TwinInv, LegsDiffer
<1>3. ListIsRecent' /\ WalkIsThis'
  BY <1>1 DEF ListIsRecent, WalkIsThis, Clean, Working
<1> QED BY <1>1, <1>2, <1>3, TwinsDropped

\* A walk through numbers that are those of the orders drops none of them.
LEMMA WalkTwins ==
    ASSUME OrdersTypes, TwinInv, NEW given \in [Order -> Id], Walk(given), pass # "free",
           UNCHANGED <<placing, orders, causes, cancels, edits>>,
           \A i \in DOMAIN orders : Clean(i) => given[orders[i].order] \in {0, i}
    PROVE  TwinInv'
<1>1. PICK items \in SUBSET {o \in Order : given[o] > 0} :
             \E orphans \in SUBSET Order, later \in SUBSET Order :
                /\ \A o \in later : given[o] > 0
                /\ twin' = [o \in Order |-> IF o \in items /\ given[o] \notin alive THEN NoTwin ELSE twin[o]]
                /\ \/ /\ job' = [job EXCEPT !["reconcile"] = [@ EXCEPT !.drop = orphans,
                                     !.ids = [o \in Order |-> IF o \in later THEN given[o] ELSE 0]]]
                      /\ pass' = "items" /\ alive' = alive
                      /\ \A o \in later : o \notin items
                   \/ /\ job' = [job EXCEPT !["reconcile"] = [Idle EXCEPT !.make =
                                     [o \in Order |-> IF twin'[o].id > 0 \/ o \in held THEN 0 ELSE known[o]]]]
                      /\ pass' = "free" /\ alive' = {}
  BY WalkFacts
<1>11. PICK orphans \in SUBSET Order, later \in SUBSET Order :
                   \/ /\ job' = [job EXCEPT !["reconcile"] = [@ EXCEPT !.drop = orphans,
                                     !.ids = [o \in Order |-> IF o \in later THEN given[o] ELSE 0]]]
                      /\ pass' = "items"
                   \/ /\ job' = [job EXCEPT !["reconcile"] = [Idle EXCEPT !.make =
                                     [o \in Order |-> IF twin'[o].id > 0 \/ o \in held THEN 0 ELSE known[o]]]]
                      /\ pass' = "free"
  BY <1>1
<1>2. job \in [Task -> JobType] /\ "reconcile" \in Task /\ job["reconcile"] \in JobType
  BY Groups DEF JobTypes, Task
<1>3. \A i \in DOMAIN orders : orders[i].order \in Order
  BY Numbers
<1>4. \A i \in DOMAIN orders : Clean(i) => twin'[orders[i].order].id = twin[orders[i].order].id
  <2> SUFFICES ASSUME NEW i \in DOMAIN orders, Clean(i)
               PROVE  twin'[orders[i].order] = twin[orders[i].order]
    OBVIOUS
  <2> DEFINE o == orders[i].order
  <2>1. o \in items => given[o] \in alive
    <3>1. i \in alive
      BY DEF TwinInv, ListIsRecent
    <3>2. o \in items => given[o] = i
      <4>1. given[o] \in {0, i}
        OBVIOUS
      <4>2. o \in items => given[o] > 0
        OBVIOUS
      <4> QED BY <4>1, <4>2
    <3> QED BY <3>1, <3>2
  <2>2. o \in Order
    BY <1>3
  <2> HIDE DEF o
  <2>3. twin'[o] = twin[o]
    BY <1>1, <2>1, <2>2
  <2> QED BY <2>3 DEF o
<1>5. PICK r : /\ job' = [job EXCEPT !["reconcile"] = r]
               /\ r.legs \in {<<>>, job["reconcile"].legs}
               /\ pass' = "items" => \A o \in Order : r.ids[o] \in {0, given[o]}
  <2> DEFINE kept == [o \in Order |-> IF o \in later THEN given[o] ELSE 0]
             made == [o \in Order |-> IF twin'[o].id > 0 \/ o \in held THEN 0 ELSE known[o]]
  <2>1. CASE job' = [job EXCEPT !["reconcile"] = [@ EXCEPT !.drop = orphans, !.ids = kept]]
    <3>1. \A o \in Order : kept[o] \in {0, given[o]}
      OBVIOUS
    <3> HIDE DEF kept
    <3> DEFINE r == [job["reconcile"] EXCEPT !.drop = orphans, !.ids = kept]
    <3>2. r.legs = job["reconcile"].legs /\ r.ids = kept
      BY <1>2 DEF JobType
    <3>3. job' = [job EXCEPT !["reconcile"] = r]
      BY <2>1
    <3> HIDE DEF r
    <3> QED BY <3>1, <3>2, <3>3
  <2>2. CASE job' = [job EXCEPT !["reconcile"] = [Idle EXCEPT !.make = made]] /\ pass' = "free"
    <3> HIDE DEF made
    <3> DEFINE r == [Idle EXCEPT !.make = made]
    <3>1. r.legs = <<>>
      BY IdleType DEF JobType
    <3>2. job' = [job EXCEPT !["reconcile"] = r]
      BY <2>2
    <3> HIDE DEF r
    <3> QED BY <2>2, <3>1, <3>2
  <2> QED BY <1>11, <2>1, <2>2
<1>6. job'["reconcile"] = r /\ \A t \in Task : t # "reconcile" => job'[t] = job[t]
  BY <1>2, <1>5
<1>7. \A t \in Task : job'[t].legs \in {<<>>, job[t].legs}
  BY <1>5, <1>6
<1>8. LegsDiffer'
  BY <1>7, StillDiffer
<1>9. \A i \in DOMAIN orders : Clean(i)' <=> Clean(i)
  BY DEF Clean, Working, Exposed, causes
<1>10. ListIsRecent'
  BY <1>1, <1>9 DEF TwinInv, ListIsRecent
<1>12. WalkIsThis'
  <2> SUFFICES ASSUME pass' = "items", NEW i \in DOMAIN orders, Clean(i)
               PROVE  job'["reconcile"].ids[orders[i].order] \in {0, i}
    BY <1>9 DEF WalkIsThis
  <2>1. job'["reconcile"].ids[orders[i].order] \in {0, given[orders[i].order]}
    BY <1>3, <1>5, <1>6
  <2> QED BY <2>1
<1> QED BY <1>4, <1>8, <1>10, <1>12, TwinsDropped

LEMMA ReconcileListedTwins == OrdersTypes /\ TwinInv /\ ReconcileListed => TwinInv'
<1> SUFFICES ASSUME OrdersTypes, TwinInv, ReconcileListed PROVE TwinInv'
  OBVIOUS
<1> DEFINE ids == [o \in Order |-> twin[o].id]
<1>1. /\ UNCHANGED <<placing, orders, causes, cancels, edits>> /\ pass = "read"
      /\ Walk(ids) \/ Walk(None)
  BY DEF ReconcileListed, brokerVars
<1>2. ids \in [Order -> Id] /\ None \in [Order -> Id] /\ \A o \in Order : None[o] = 0
  BY Groups, Sizes DEF TwinTypes, TwinType, None, Id
<1>3. \A i \in DOMAIN orders : orders[i].order \in Order
  BY Numbers
<1>4. \A i \in DOMAIN orders : Clean(i) => ids[orders[i].order] \in {0, i}
  BY <1>3 DEF TwinInv, TwinIsThis
<1> HIDE DEF ids
<1>5. \A i \in DOMAIN orders : None[orders[i].order] = 0
  BY <1>2, <1>3
<1> QED BY <1>1, <1>2, <1>4, <1>5, WalkTwins

LEMMA ReconcileGoesOnTwins == OrdersTypes /\ TwinInv /\ ReconcileGoesOn => TwinInv'
<1> SUFFICES ASSUME OrdersTypes, TwinInv, ReconcileGoesOn PROVE TwinInv'
  OBVIOUS
<1>1. /\ UNCHANGED <<placing, orders, causes, cancels, edits>> /\ pass = "items"
      /\ Walk(job["reconcile"].ids)
  BY DEF ReconcileGoesOn, brokerVars
<1>2. job["reconcile"].ids \in [Order -> Id]
  BY Groups DEF JobTypes, JobType, Task
<1> QED BY <1>1, <1>2, WalkTwins DEF TwinInv, WalkIsThis

LEMMA StopTwins == OrdersTypes /\ TwinInv /\ Stop => TwinInv'
<1> SUFFICES ASSUME OrdersTypes, TwinInv, Stop PROVE TwinInv'
  OBVIOUS
<1>1. /\ UNCHANGED <<twin, placing, orders, causes>>
      /\ job' = [t \in Task |-> Idle] /\ pass' = "free" /\ cancels' = {} /\ edits' = {}
  BY DEF Stop, brokerVars
<1>2. LegsDiffer'
  BY <1>1, IdleType, StillDiffer
<1>3. ListIsRecent' /\ WalkIsThis'
  BY <1>1 DEF ListIsRecent, WalkIsThis
<1> QED BY <1>1, <1>2, <1>3, TwinsDropped

LEMMA StartTwins == OrdersTypes /\ TwinInv /\ Start => TwinInv'
<1> SUFFICES ASSUME OrdersTypes, TwinInv, Start PROVE TwinInv'
  OBVIOUS
<1>1. /\ UNCHANGED <<job, pass, alive, placing, cancels, edits, orders, causes>>
      /\ placing.task = "nobody"
      /\ twin' = [o \in Order |-> IF HasTwin(o) /\ Working(twin[o].id) THEN twin[o] ELSE NoTwin]
         \/ twin' = twin
  BY StartFacts
<1>2. ASSUME NEW i \in DOMAIN orders, Clean(i) PROVE twin'[orders[i].order] = twin[orders[i].order]
  <2>1. orders[i].order \in Order /\ i > 0
    BY Numbers
  <2>2. twin[orders[i].order].id = i
    BY <1>1, <1>2 DEF TwinInv, TwinIsThis, InPlacement
  <2>3. HasTwin(orders[i].order) /\ Working(twin[orders[i].order].id)
    BY <1>2, <2>1, <2>2 DEF HasTwin, Clean
  <2> QED BY <1>1, <2>1, <2>3, Zenon
<1>3. LegsDiffer'
  BY <1>1 DEF TwinInv, LegsDiffer
<1>4. ListIsRecent' /\ WalkIsThis'
  BY <1>1, SameWalk
<1> QED BY <1>1, <1>2, <1>3, <1>4, TwinsDropped

LEMMA TwinsKept == OrdersTypes /\ TwinInv /\ [Next]_vars => TwinInv'
<1> SUFFICES ASSUME OrdersTypes, TwinInv, [Next]_vars PROVE TwinInv'
  OBVIOUS
<1>1. CASE Leader
  BY <1>1, FeedTwins DEF Leader, mirrorVars, brokerVars
<1>2. CASE ApplyPoll \/ ApplySoon
  BY <1>2, ApplyTwins DEF ApplyPoll, ApplySoon
<1>3. CASE PollLooks
  BY <1>3, FeedTwins DEF PollLooks, brokerVars
<1>4. CASE \E o \in Order : OnEntity(o)
  BY <1>4, FeedTwins DEF OnEntity, mirrorVars, brokerVars
<1>5. CASE \E o \in Order : ModifySent(o)
  BY <1>5, ModifySentTwins
<1>6. CASE \E t \in Task : \/ \E o \in Order : CancelSent(t, o) \/ Consider(t, o)
                           \/ Place(t) \/ PlaceSkipped(t)
  BY <1>6, CancelSentTwins, ConsiderTwins, PlaceTwins, PlaceSkippedTwins
<1>7. CASE UNCHANGED vars
  BY <1>7, FeedTwins DEF vars, mirrorVars, brokerVars
<1> QED
  BY <1>1, <1>2, <1>3, <1>4, <1>5, <1>6, <1>7, Steps, CancelAnsweredTwins, ModifyAnsweredTwins,
     PlaceAnsweredTwins, ReconcileReadsTwins, ReconcileListedTwins, ReconcileGoesOnTwins,
     CancelAllTwins, TwinFillsTwins, StopTwins, StartTwins, Zenon

\* Two such orders of one leader order: both its twin, or one of them being placed while
\* there is no twin, or both being placed, under one number.
LEMMA TwinsGiven == OrdersTypes /\ TwinInv => ForgottenHasCause /\ RepeatedHasCause
<1> SUFFICES ASSUME OrdersTypes, TwinInv PROVE ForgottenHasCause /\ RepeatedHasCause
  OBVIOUS
<1>1. ForgottenHasCause
  BY DEF TwinInv, TwinIsThis, ForgottenHasCause, Recorded, Clean, InPlacement
<1>2. ASSUME NEW i \in DOMAIN orders, NEW k \in DOMAIN orders, Clean(i), Clean(k),
             orders[i].order = orders[k].order
      PROVE  i = k
  <2>1. i > 0 /\ k > 0
    BY Numbers
  <2>2. CASE InPlacement(i) /\ InPlacement(k)
    BY <1>2, <2>2 DEF TwinInv, PlacingIsRecorded
  <2>3. CASE ~(InPlacement(i) /\ InPlacement(k))
    BY <1>2, <2>1, <2>3 DEF TwinInv, TwinIsThis
  <2> QED BY <2>2, <2>3
<1>3. RepeatedHasCause
  BY <1>2 DEF RepeatedHasCause, Clean
<1> QED BY <1>1, <1>3

-----------------------------------------------------------------------------
(* A follower's position, for any size of the leader's and any number of   *)
(* events, faults and commands.                                            *)
(*                                                                         *)
(* WithinLeader is not inductive: an order is the difference to what the   *)
(* mirror believes the follower holds. The invariant says when each of its *)
(* beliefs is true: the memory, unless an order is under way; the broker's *)
(* list, unless it may be behind; the list a reconcile has read, unless an *)
(* order went out after it; and who works under the lock is alone with it. *)

Reached == 0 .. peak
PosJob == [stage : Positions!Stage, want : Reached, have : Int, result : {"none", "taken", "failed"}]
InQueue == {"waiting", "checking", "reading", "sent", "closing", "closed"}
UnderLock == {"reading", "sent", "closed"}
Asked == {"sent", "closed"}

PosFeed ==
    /\ peak \in 0 .. MaxSize /\ pLead \in Reached
    /\ events \in Seq(Reached) /\ Len(events) <= moves
    /\ pWsok \in BOOLEAN
    /\ pLook \in {<<>>} \cup {<<n>> : n \in Reached}
    /\ pending \in Reached \cup {-1}
    /\ net \in Reached \cup {-1}
    /\ saved \in Reached
PosBounds ==
    /\ moves \in Nat /\ pFaults \in Nat /\ commands \in Nat
    /\ moves + pFaults + commands <= MaxEvents
PosFlags ==
    /\ baseline \in BOOLEAN /\ paused \in BOOLEAN /\ lag \in BOOLEAN /\ lost \in BOOLEAN
    /\ flattened \in BOOLEAN /\ unresolved \in BOOLEAN /\ restarted \in BOOLEAN /\ pUp \in BOOLEAN
    /\ settling \in {"no", "sent", "failed"}
    /\ ~pUp => restarted
PosMemory ==
    /\ memory \in {<<>>} \cup {<<n>> : n \in Int}
    /\ pos \in Int /\ shown \in Int
PosJobs ==
    /\ pJob \in [Positions!Task -> PosJob]
    /\ \A t \in Positions!Task :
        /\ pJob[t].stage \in Asked => pJob[t].result # "none"
        /\ t # "flatten" => pJob[t].stage \notin {"closing", "closed", "verify"}
        /\ ~pUp => pJob[t].stage = "none"
    /\ pJob["flatten"].stage # "none" => flattened

\* The first in line holds the lock; who is in line has not yet left it.
PosLine ==
    /\ lockq \in Seq(Positions!Task)
    /\ \A i, k \in 1 .. Len(lockq) : lockq[i] = lockq[k] => i = k
    /\ \A i \in 1 .. Len(lockq) : pJob[lockq[i]].stage \in InQueue
    /\ \A t \in Positions!Task : pJob[t].stage \in UnderLock => lockq # <<>> /\ lockq[1] = t

\* A poll has not yet worked with a look as long as it does nothing else.
PosPolls == pLook # <<>> => pUp /\ pJob["poll"].stage = "none"

PosTypes == PosFeed /\ PosBounds /\ PosFlags /\ PosMemory /\ PosJobs /\ PosLine /\ PosPolls

LEMMA PosTypesGiven == PosTypes => Positions!TypeOK
<1> SUFFICES ASSUME PosTypes PROVE Positions!TypeOK
  OBVIOUS
<1>1. PosFeed /\ PosBounds /\ PosFlags /\ PosMemory /\ PosJobs /\ PosLine
  BY DEF PosTypes
<1>2. Reached \subseteq Positions!Size
  BY <1>1, Sizes DEF PosFeed, Reached, Positions!Size
<1>3. /\ pLead \in Positions!Size /\ peak \in Positions!Size
      /\ pLook \in {<<>>} \cup {<<n>> : n \in Positions!Size}
      /\ pending \in Positions!Size \cup {-1} /\ net \in Positions!Size \cup {-1}
      /\ saved \in Positions!Size
  BY <1>1, <1>2 DEF PosFeed, Positions!Size
<1>4. events \in Seq(Positions!Size)
  <2>1. events \in Seq(Reached)
    BY <1>1 DEF PosFeed
  <2> QED BY <1>2, <2>1
<1>5. moves \in 0 .. MaxEvents /\ pFaults \in 0 .. MaxEvents /\ commands \in 0 .. MaxEvents
  BY <1>1, Sizes DEF PosBounds
<1>6. Len(events) <= MaxEvents
  BY <1>1, <1>4, <1>5, Sizes DEF PosFeed
<1>7. memory \in Seq(Int) /\ Len(memory) <= 1
  <2>1. CASE memory = <<>>
    BY <2>1
  <2>2. ASSUME NEW n \in Int, memory = <<n>>
        PROVE  memory \in Seq(Int) /\ Len(memory) <= 1
    BY <2>2
  <2> QED BY <1>1, <2>1, <2>2 DEF PosMemory
<1>8. pJob \in [Positions!Task -> [stage : Positions!Stage, want : Positions!Size, have : Int,
                                   result : {"none", "taken", "failed"}]]
  BY <1>1, <1>2 DEF PosJobs, PosJob
<1>9. lockq \in Seq(Positions!Task) /\ Positions!IsInjective(lockq)
  <2>1. lockq \in Seq(Positions!Task) /\ \A i, k \in 1 .. Len(lockq) : lockq[i] = lockq[k] => i = k
    BY <1>1 DEF PosLine
  <2> QED BY <2>1 DEF Positions!IsInjective
<1>10. \A t \in Positions!Task : pJob[t].stage \in {"reading", "sent", "closed"} => lockq # <<>> /\ lockq[1] = t
  BY <1>1 DEF PosLine, UnderLock
<1> QED
  BY <1>1, <1>3, <1>4, <1>5, <1>6, <1>7, <1>8, <1>9, <1>10
     DEF Positions!TypeOK, Positions!Nothing, PosFeed, PosFlags, PosMemory

LEMMA PosTypesInit == Positions!Init => PosTypes
<1> SUFFICES ASSUME Positions!Init PROVE PosTypes
  OBVIOUS
<1>1. PosFeed
  BY Sizes DEF Positions!Init, PosFeed, Positions!Nothing, Reached
<1>2. PosBounds /\ PosMemory
  BY Sizes DEF Positions!Init, PosBounds, PosMemory, Positions!Unknown
<1>7. PosFlags
  <2>1. baseline \in BOOLEAN
    BY DEF Positions!Init
  <2> QED BY <2>1 DEF Positions!Init, PosFlags
<1>3. Positions!Done \in PosJob /\ Positions!Done.stage = "none"
  BY <1>1, Sizes DEF Positions!Done, PosJob, Positions!Stage, PosFeed, Reached
<1>4. \A t \in Positions!Task : pJob[t] = Positions!Done
  BY DEF Positions!Init
<1>5. PosJobs
  BY <1>3, <1>4 DEF Positions!Init, PosJobs, Asked, Positions!Task
<1>6. PosLine
  BY <1>3, <1>4 DEF Positions!Init, PosLine, UnderLock
<1>8. PosPolls
  BY DEF Positions!Init, PosPolls
<1> QED BY <1>1, <1>2, <1>5, <1>6, <1>7, <1>8 DEF PosTypes

\* What a step leaves alone keeps its type.
LEMMA PosGroups ==
    ASSUME PosTypes
    PROVE  PosFeed /\ PosBounds /\ PosFlags /\ PosMemory /\ PosJobs /\ PosLine /\ PosPolls
BY DEF PosTypes

LEMMA PosStay ==
    /\ UNCHANGED <<pLead, peak, events, moves, pWsok, pLook, pending, net, saved>> => (PosFeed' <=> PosFeed)
    /\ UNCHANGED <<moves, pFaults, commands>> => (PosBounds' <=> PosBounds)
    /\ UNCHANGED <<baseline, paused, lag, lost, flattened, unresolved, restarted, pUp, settling>> =>
         (PosFlags' <=> PosFlags)
    /\ UNCHANGED <<memory, pos, shown>> => (PosMemory' <=> PosMemory)
    /\ UNCHANGED <<pJob, peak, pUp, flattened>> => (PosJobs' <=> PosJobs)
    /\ UNCHANGED <<lockq, pJob>> => (PosLine' <=> PosLine)
    /\ UNCHANGED <<pLook, pJob, pUp>> => (PosPolls' <=> PosPolls)
<1>1. UNCHANGED peak => Reached' = Reached
  BY DEF Reached
<1>2. UNCHANGED <<pLead, peak, events, moves, pWsok, pLook, pending, net, saved>> => (PosFeed' <=> PosFeed)
  BY <1>1 DEF PosFeed
<1>3. UNCHANGED <<moves, pFaults, commands>> => (PosBounds' <=> PosBounds)
  BY DEF PosBounds
<1>4. UNCHANGED <<baseline, paused, lag, lost, flattened, unresolved, restarted, pUp, settling>> =>
         (PosFlags' <=> PosFlags)
  BY DEF PosFlags
<1>5. UNCHANGED <<memory, pos, shown>> => (PosMemory' <=> PosMemory)
  BY DEF PosMemory
<1>6. UNCHANGED <<pJob, peak, pUp, flattened>> => (PosJobs' <=> PosJobs)
  BY <1>1 DEF PosJobs, PosJob
<1>7. UNCHANGED <<lockq, pJob>> => (PosLine' <=> PosLine)
  BY DEF PosLine
<1>8. UNCHANGED <<pLook, pJob, pUp>> => (PosPolls' <=> PosPolls)
  BY DEF PosPolls
<1> QED BY <1>2, <1>3, <1>4, <1>5, <1>6, <1>7, <1>8

LEMMA FaultBounds ==
    /\ PosBounds /\ UNCHANGED <<moves, commands>> /\ (pFaults' = pFaults \/ Positions!Fault) =>
         PosBounds' /\ (pFaults' = 0 => pFaults = 0)
    /\ PosBounds /\ UNCHANGED <<moves, commands>> /\ Positions!Fault => pFaults' # 0
    /\ PosBounds /\ UNCHANGED <<moves, pFaults>> /\ Positions!Command => PosBounds'
BY Sizes DEF PosBounds, Positions!Fault, Positions!Command, Positions!Within

\* A job may be what RightJob says.
RightJob(t, j) ==
    /\ j \in PosJob
    /\ j.stage \in Asked => j.result # "none"
    /\ t # "flatten" => j.stage \notin {"closing", "closed", "verify"}
    /\ ~pUp => j.stage = "none"

LEMMA RightJobs ==
    PosJobs <=> /\ pJob \in [Positions!Task -> PosJob]
                /\ \A t \in Positions!Task : RightJob(t, pJob[t])
                /\ pJob["flatten"].stage # "none" => flattened
BY DEF PosJobs, RightJob

\* One task's job changes.
LEMMA OneJob ==
    ASSUME PosJobs, UNCHANGED <<peak, pUp>>, flattened => flattened', NEW t \in Positions!Task, NEW r,
           pJob' = [pJob EXCEPT ![t] = r], RightJob(t, r),
           t = "flatten" /\ r.stage # "none" => flattened'
    PROVE  /\ PosJobs' /\ pJob'[t] = r /\ \A u \in Positions!Task : u # t => pJob'[u] = pJob[u]
<1>1. /\ pJob \in [Positions!Task -> PosJob] /\ \A u \in Positions!Task : RightJob(u, pJob[u])
      /\ pJob["flatten"].stage # "none" => flattened
  BY RightJobs
<1>2. Reached' = Reached /\ PosJob' = PosJob
  BY DEF Reached, PosJob
<1>3. pJob'[t] = r /\ \A u \in Positions!Task : u # t => pJob'[u] = pJob[u]
  BY <1>1
<1>4. r \in PosJob
  BY DEF RightJob
<1>5. pJob' \in [Positions!Task -> PosJob']
  BY <1>1, <1>2, <1>4
<1>6. \A u \in Positions!Task : RightJob(u, pJob'[u])
  BY <1>1, <1>3
<1>7. pJob'["flatten"].stage # "none" => flattened'
  BY <1>1, <1>3 DEF Positions!Task
<1> QED BY <1>3, <1>5, <1>6, <1>7 DEF PosJobs, RightJob

LEMMA DoneJob ==
    ASSUME PosFeed
    PROVE  /\ Positions!Done \in PosJob /\ \A t : RightJob(t, Positions!Done)
           /\ Positions!Done.stage = "none" /\ Positions!Done.result = "none"
BY Sizes DEF PosFeed, Positions!Done, PosJob, RightJob, Positions!Stage, Reached, Asked

\* The line, when nobody joins or leaves it
LEMMA LineStays ==
    ASSUME PosLine, lockq' = lockq,
           \A t \in Positions!Task : /\ pJob[t].stage \in InQueue => pJob'[t].stage \in InQueue
                                     /\ pJob'[t].stage \in UnderLock =>
                                          pJob[t].stage \in UnderLock \/ Positions!Holds(t)
    PROVE  PosLine'
<1>1. lockq \in Seq(Positions!Task)
  BY DEF PosLine
<1>2. \A i \in 1 .. Len(lockq) : lockq[i] \in Positions!Task
  BY <1>1
<1> QED BY <1>2 DEF PosLine, Positions!Holds

\* when one joins it,
LEMMA LineJoins ==
    ASSUME PosLine, NEW t \in Positions!Task, lockq' = Append(lockq, t),
           pJob[t].stage \notin InQueue, pJob'[t].stage \in InQueue \ UnderLock,
           \A u \in Positions!Task : u # t => pJob'[u].stage = pJob[u].stage
    PROVE  PosLine'
<1>1. lockq \in Seq(Positions!Task)
  BY DEF PosLine
<1>2. /\ lockq' \in Seq(Positions!Task) /\ lockq' # <<>> /\ Len(lockq') = Len(lockq) + 1
      /\ \A i \in 1 .. Len(lockq) : lockq'[i] = lockq[i]
      /\ lockq'[Len(lockq) + 1] = t
  BY <1>1, AppendProperties
<1>3. Len(lockq) \in Nat /\ (lockq # <<>> => Len(lockq) >= 1) /\ \A i \in 1 .. Len(lockq) : lockq[i] \in Positions!Task
  BY <1>1
<1>4. \A i \in 1 .. Len(lockq) : lockq[i] # t /\ pJob[lockq[i]].stage \in InQueue
  BY DEF PosLine
<1>5. \A i, k \in 1 .. Len(lockq') : lockq'[i] = lockq'[k] => i = k
  BY <1>2, <1>3, <1>4 DEF PosLine
<1>6. \A i \in 1 .. Len(lockq') : pJob'[lockq'[i]].stage \in InQueue
  <2> SUFFICES ASSUME NEW i \in 1 .. Len(lockq')
               PROVE  pJob'[lockq'[i]].stage \in InQueue
    OBVIOUS
  <2>1. CASE i \in 1 .. Len(lockq)
    BY <1>2, <1>3, <1>4, <2>1
  <2>2. CASE i = Len(lockq) + 1
    BY <1>2, <2>2
  <2> QED BY <1>2, <1>3, <2>1, <2>2
<1>7. \A u \in Positions!Task : pJob'[u].stage \in UnderLock => lockq' # <<>> /\ lockq'[1] = u
  BY <1>2, <1>3 DEF PosLine
<1> QED BY <1>2, <1>5, <1>6, <1>7 DEF PosLine

\* when its first leaves it,
LEMMA LineLeaves ==
    ASSUME PosLine, NEW t \in Positions!Task, Positions!Holds(t), lockq' = Tail(lockq),
           pJob'[t].stage \notin UnderLock,
           \A u \in Positions!Task : u # t => pJob'[u].stage = pJob[u].stage
    PROVE  PosLine'
<1>1. lockq \in Seq(Positions!Task) /\ lockq # <<>> /\ lockq[1] = t
  BY DEF PosLine, Positions!Holds
<1>2. /\ lockq' \in Seq(Positions!Task) /\ Len(lockq') = Len(lockq) - 1
      /\ \A i \in 1 .. Len(lockq') : lockq'[i] = lockq[i + 1]
  BY <1>1, HeadTailProperties
<1>3. Len(lockq) \in Nat /\ Len(lockq) >= 1 /\ \A i \in 1 .. Len(lockq) : lockq[i] \in Positions!Task
  BY <1>1
<1>4. \A i \in 1 .. Len(lockq') : i + 1 \in 1 .. Len(lockq) /\ i + 1 # 1
  BY <1>2, <1>3
<1>5. \A i \in 1 .. Len(lockq') : lockq'[i] # t
  BY <1>1, <1>2, <1>3, <1>4 DEF PosLine
<1>6. \A i, k \in 1 .. Len(lockq') : lockq'[i] = lockq'[k] => i = k
  <2> SUFFICES ASSUME NEW i \in 1 .. Len(lockq'), NEW k \in 1 .. Len(lockq'), lockq'[i] = lockq'[k]
               PROVE  i = k
    OBVIOUS
  <2>1. i + 1 = k + 1
    BY <1>2, <1>4 DEF PosLine
  <2> QED BY <2>1
<1>7. \A i \in 1 .. Len(lockq') : pJob'[lockq'[i]].stage \in InQueue
  BY <1>2, <1>3, <1>4, <1>5 DEF PosLine
<1>8. \A u \in Positions!Task : pJob'[u].stage \notin UnderLock
  BY <1>1 DEF PosLine
<1> QED BY <1>2, <1>6, <1>7, <1>8 DEF PosLine

\* when its first queues up anew.
LEMMA LineRejoins ==
    ASSUME PosLine, NEW t \in Positions!Task, Positions!Holds(t), lockq' = Append(Tail(lockq), t),
           pJob'[t].stage \in InQueue \ UnderLock,
           \A u \in Positions!Task : u # t => pJob'[u].stage = pJob[u].stage
    PROVE  PosLine'
<1> DEFINE q == Tail(lockq)
<1>1. lockq \in Seq(Positions!Task) /\ lockq # <<>> /\ lockq[1] = t
  BY DEF PosLine, Positions!Holds
<1>2. /\ q \in Seq(Positions!Task) /\ Len(q) = Len(lockq) - 1
      /\ \A i \in 1 .. Len(q) : q[i] = lockq[i + 1]
  BY <1>1, HeadTailProperties
<1>3. Len(lockq) \in Nat /\ Len(lockq) >= 1 /\ \A i \in 1 .. Len(lockq) : lockq[i] \in Positions!Task
  BY <1>1
<1> HIDE DEF q
<1>4. /\ lockq' \in Seq(Positions!Task) /\ lockq' # <<>> /\ Len(lockq') = Len(q) + 1
      /\ \A i \in 1 .. Len(q) : lockq'[i] = q[i]
      /\ lockq'[Len(q) + 1] = t
  BY <1>2, AppendProperties DEF q
<1>5. \A i \in 1 .. Len(q) : i + 1 \in 1 .. Len(lockq) /\ i + 1 # 1 /\ lockq'[i] = lockq[i + 1] /\ lockq[i + 1] # t
  BY <1>1, <1>2, <1>3, <1>4 DEF PosLine
<1>6. Len(q) \in Nat /\ Len(lockq') = Len(q) + 1
  BY <1>2, <1>4
<1>7. \A i, k \in 1 .. Len(lockq') : lockq'[i] = lockq'[k] => i = k
  <2> SUFFICES ASSUME NEW i \in 1 .. Len(lockq'), NEW k \in 1 .. Len(lockq'), lockq'[i] = lockq'[k]
               PROVE  i = k
    OBVIOUS
  <2>1. CASE i \in 1 .. Len(q) /\ k \in 1 .. Len(q)
    <3>1. i + 1 = k + 1
      BY <1>5, <2>1 DEF PosLine
    <3> QED BY <3>1
  <2>2. i \in 1 .. Len(q) \/ i = Len(q) + 1
    BY <1>6
  <2>3. k \in 1 .. Len(q) \/ k = Len(q) + 1
    BY <1>6
  <2> QED BY <1>4, <1>5, <2>1, <2>2, <2>3
<1>8. \A i \in 1 .. Len(lockq') : pJob'[lockq'[i]].stage \in InQueue
  <2> SUFFICES ASSUME NEW i \in 1 .. Len(lockq')
               PROVE  pJob'[lockq'[i]].stage \in InQueue
    OBVIOUS
  <2>1. CASE i \in 1 .. Len(q)
    BY <1>3, <1>5, <2>1 DEF PosLine
  <2>2. CASE i = Len(q) + 1
    BY <1>4, <2>2
  <2> QED BY <1>6, <2>1, <2>2
<1>9. \A u \in Positions!Task : pJob'[u].stage \notin UnderLock
  BY <1>1 DEF PosLine
<1> QED BY <1>4, <1>7, <1>8, <1>9 DEF PosLine

\* Who works under the lock works alone.
LEMMA AloneUnderLock ==
    ASSUME PosLine, NEW t \in Positions!Task, Positions!Holds(t)
    PROVE  \A u \in Positions!Task : u # t => pJob[u].stage \notin UnderLock
BY DEF PosLine, Positions!Holds

\* Unless an answer was lost, or the list is behind and something else went wrong.
Sure == ~lost /\ (~lag \/ (pFaults = 0 /\ ~restarted /\ ~flattened))
NoneAsked == \A t \in Positions!Task : pJob[t].stage \notin Asked

\* The follower is within what the leader has held.
PosWithin == Sure => pos \in Reached
\* The list is true when it never lags, and when every order has settled.
ListTrue == Sure /\ (~lag \/ (settling = "no" /\ NoneAsked)) => shown = pos
\* The memory, if there is one, is true when no order is under way;
MemoryTrue == Sure /\ NoneAsked => memory \in {<<>>, <<pos>>}
\* and there is one as long as the list may be behind.
MemoryKept == Sure /\ lag /\ memory = <<>> => settling = "no" /\ NoneAsked
\* An order under way has led to what it was to lead to, or to nothing.
AskedTrue ==
    Sure => \A t \in Positions!Task : pJob[t].stage \in Asked =>
        IF pJob[t].result = "taken" THEN pos = (IF pJob[t].stage = "sent" THEN pJob[t].want ELSE 0)
        ELSE memory \in {<<>>, <<pos>>}
\* The list a reconcile has read is true unless it was told of an order since, or
\* will be.
LookTrue ==
    Sure /\ pJob["reconcile"].stage \in {"listed", "checking"} /\ pJob["reconcile"].result # "taken"
        => \/ pJob["reconcile"].have = pos
           \/ \E t \in Positions!Task : pJob[t].stage \in Asked /\ pJob[t].result = "taken"
\* A position is read under the lock while it is unknown.
ReadsUnknown == \A t \in Positions!Task : pJob[t].stage = "reading" => memory = <<>>
\* Without faults nothing failed.
NoFailure ==
    pFaults = 0 => /\ \A t \in Positions!Task : pJob[t].result # "failed"
                   /\ ~lost
                   /\ ~flattened => settling # "failed"
\* Of a baseline the follower holds nothing, and nothing is on its way.
BaselineFlat ==
    baseline /\ ~flattened /\ ~restarted =>
        pos = 0 /\ \A t \in Positions!Task : pJob[t].stage \in {"none", "named", "listed"}

PosBeliefs ==
    /\ PosWithin /\ ListTrue /\ MemoryTrue /\ MemoryKept /\ AskedTrue /\ LookTrue
    /\ ReadsUnknown /\ NoFailure /\ BaselineFlat

LEMMA PosBeliefsInit == Positions!Init => PosBeliefs
<1> SUFFICES ASSUME Positions!Init PROVE PosBeliefs
  OBVIOUS
<1>1. PosTypes /\ PosFeed
  BY PosTypesInit, PosGroups
<1>2. \A t \in Positions!Task : pJob[t].stage = "none" /\ pJob[t].result = "none"
  BY <1>1, DoneJob DEF Positions!Init
<1>3. /\ pos = 0 /\ shown = 0 /\ memory = <<>> /\ settling = "no" /\ lost = FALSE /\ "reconcile" \in Positions!Task
      /\ 0 \in Reached
  BY <1>1, Sizes DEF Positions!Init, Positions!Unknown, Positions!Task, PosFeed, Reached
<1> QED
  BY <1>2, <1>3 DEF PosBeliefs, PosWithin, ListTrue, MemoryTrue, MemoryKept, AskedTrue, LookTrue,
     ReadsUnknown, NoFailure, BaselineFlat, NoneAsked, Asked

\* What nobody knows yet does not disturb a belief: the same order is under way
\* after the step, and a list that is read now is the broker's.
QuietJob(t, old, new) ==
    \/ new = old
    \/ /\ old.stage \notin Asked /\ new.stage \notin Asked
       /\ new.result = "failed" => old.result = "failed"
       /\ new.stage = "reading" => memory = <<>>
       /\ t = "reconcile" /\ new.stage \in {"listed", "checking"} =>
            \/ /\ old.stage \in {"listed", "checking"}
               /\ new.have = old.have /\ new.result = old.result
            \/ /\ new.have = shown
               /\ settling = "sent" => new.result = "taken"

LEMMA QuietBeliefs ==
    ASSUME PosTypes, PosBeliefs, UNCHANGED <<pos, shown, lag, lost, memory>>, settling' = settling \/ flattened,
           Reached \subseteq Reached',
           pFaults' = 0 => pFaults = 0, flattened => flattened', restarted => restarted',
           \A t \in Positions!Task : QuietJob(t, pJob[t], pJob'[t]),
           baseline' /\ ~flattened' /\ ~restarted' =>
               baseline /\ \A t \in Positions!Task :
                   pJob[t].stage \in {"none", "named", "listed"} => pJob'[t].stage \in {"none", "named", "listed"}
    PROVE  PosBeliefs'
<1>1. Sure' => Sure
  BY DEF Sure
<1>2. \A t \in Positions!Task : /\ pJob'[t].stage \in Asked <=> pJob[t].stage \in Asked
                                /\ pJob'[t].stage \in Asked => pJob'[t] = pJob[t]
                                /\ pJob'[t].result = "failed" => pJob[t].result = "failed"
                                /\ pJob'[t].stage = "reading" => memory = <<>>
  BY DEF QuietJob, PosBeliefs, ReadsUnknown
<1>3. NoneAsked' <=> NoneAsked
  BY <1>2 DEF NoneAsked
<1>4. PosWithin' /\ ListTrue' /\ MemoryTrue' /\ MemoryKept'
  BY <1>1, <1>3 DEF PosBeliefs, PosWithin, ListTrue, MemoryTrue, MemoryKept, Sure
<1>5. AskedTrue'
  BY <1>1, <1>2 DEF PosBeliefs, AskedTrue
<1>6. LookTrue'
  <2> SUFFICES ASSUME Sure', pJob'["reconcile"].stage \in {"listed", "checking"}, pJob'["reconcile"].result # "taken",
                      ~\E t \in Positions!Task : pJob'[t].stage \in Asked /\ pJob'[t].result = "taken"
               PROVE  pJob'["reconcile"].have = pos
    BY DEF LookTrue
  <2>1. Sure /\ ~\E t \in Positions!Task : pJob[t].stage \in Asked /\ pJob[t].result = "taken"
    BY <1>1, <1>2
  <2>2. "reconcile" \in Positions!Task
    BY DEF Positions!Task
  <2>3. QuietJob("reconcile", pJob["reconcile"], pJob'["reconcile"])
    BY <2>2
  <2>4. CASE /\ pJob["reconcile"].stage \in {"listed", "checking"}
             /\ pJob'["reconcile"].have = pJob["reconcile"].have
             /\ pJob'["reconcile"].result = pJob["reconcile"].result
    BY <2>1, <2>4 DEF PosBeliefs, LookTrue
  <2>5. CASE pJob'["reconcile"].have = shown /\ settling # "sent"
    <3>1. CASE ~lag
      BY <2>1, <2>5, <3>1 DEF PosBeliefs, ListTrue
    <3>2. CASE lag
      <4>1. pFaults = 0 /\ ~flattened
        BY <2>1, <3>2 DEF Sure
      <4>2. settling = "no" /\ \A t \in Positions!Task : pJob[t].result # "failed"
        BY <2>5, <4>1, PosGroups DEF PosBeliefs, NoFailure, PosFlags
      <4>3. NoneAsked
        <5>1. \A t \in Positions!Task : pJob[t].stage \in Asked => pJob[t].result \in {"taken", "failed"}
          BY PosGroups DEF PosJobs, PosJob
        <5> QED BY <2>1, <4>2, <5>1 DEF NoneAsked
      <4> QED BY <2>1, <2>5, <4>2, <4>3 DEF PosBeliefs, ListTrue
    <3> QED BY <3>1, <3>2
  <2> QED BY <2>3, <2>4, <2>5 DEF QuietJob
<1>7. ReadsUnknown'
  BY <1>2 DEF ReadsUnknown
<1>8. NoFailure'
  BY <1>2 DEF PosBeliefs, NoFailure
<1>9. BaselineFlat'
  BY DEF PosBeliefs, BaselineFlat
<1> QED
  BY <1>4, <1>5, <1>6, <1>7, <1>8, <1>9 DEF PosBeliefs

PosInv == PosTypes /\ PosBeliefs

LEMMA SameReached == UNCHANGED peak => Reached \subseteq Reached'
BY DEF Reached

\* The jobs and the beliefs when nothing of a job changes
LEMMA SameJobs ==
    ASSUME PosInv, UNCHANGED <<pos, shown, lag, lost, memory, settling, pJob>>,
           Reached \subseteq Reached',
           pFaults' = 0 => pFaults = 0, flattened => flattened', restarted => restarted',
           baseline' /\ ~flattened' /\ ~restarted' => baseline
    PROVE  PosBeliefs'
<1>1. \A t \in Positions!Task : QuietJob(t, pJob[t], pJob'[t])
  BY DEF QuietJob
<1> QED BY <1>1, QuietBeliefs DEF PosInv

\* and when one does.
LEMMA QuietStep ==
    ASSUME PosInv, UNCHANGED <<pos, shown, lag, lost, memory, settling, peak, pUp>>,
           pFaults' = 0 => pFaults = 0, flattened => flattened', restarted => restarted',
           NEW t \in Positions!Task, NEW r, pJob' = [pJob EXCEPT ![t] = r],
           RightJob(t, r), QuietJob(t, pJob[t], r),
           t = "flatten" /\ r.stage # "none" => flattened',
           baseline' /\ ~flattened' /\ ~restarted' =>
               baseline /\ (pJob[t].stage \in {"none", "named", "listed"} => r.stage \in {"none", "named", "listed"})
    PROVE  /\ PosBeliefs' /\ PosJobs'
           /\ pJob'[t] = r /\ \A u \in Positions!Task : u # t => pJob'[u] = pJob[u]
<1>1. PosJobs
  BY PosGroups DEF PosInv
<1>2. PosJobs' /\ pJob'[t] = r /\ \A u \in Positions!Task : u # t => pJob'[u] = pJob[u]
  BY <1>1, OneJob
<1>3. \A u \in Positions!Task : QuietJob(u, pJob[u], pJob'[u])
  BY <1>2 DEF QuietJob
<1> QED BY <1>2, <1>3, SameReached, QuietBeliefs DEF PosInv

LEMMA LeaderMovesKept == PosInv /\ Positions!LeaderMoves => PosInv'
<1> SUFFICES ASSUME PosInv, Positions!LeaderMoves PROVE PosInv'
  OBVIOUS
<1>1. PICK n \in Positions!Size \ {pLead} :
        /\ pLead' = n
        /\ peak' = Positions!Max2(peak, n)
        /\ events' = IF pUp /\ pWsok THEN Append(events, n) ELSE events
  BY DEF Positions!LeaderMoves
<1>2. /\ Positions!Within /\ moves' = moves + 1
      /\ UNCHANGED <<pWsok, pLook, pending, net, baseline, paused, memory, pos, shown, lag, lost,
                     settling, pJob, lockq, saved, flattened, unresolved, pFaults, commands, restarted, pUp>>
  BY DEF Positions!LeaderMoves, Positions!brokerVars, Positions!boundVars
<1>3. PosFeed /\ PosBounds /\ PosFlags /\ PosMemory /\ PosJobs /\ PosLine /\ PosPolls
  BY PosGroups DEF PosInv
<1>4. peak' \in 0 .. MaxSize /\ peak <= peak' /\ n <= peak' /\ n \in Nat
  BY <1>1, <1>3, Sizes DEF PosFeed, Positions!Max2, Positions!Size
<1>5. Reached \subseteq Reached' /\ n \in Reached'
  BY <1>3, <1>4, Sizes DEF Reached, PosFeed
<1>6. PosBounds'
  BY <1>2, <1>3, Sizes DEF PosBounds, Positions!Within
<1>7. events' \in Seq(Reached') /\ Len(events') <= moves'
  <2>1. events \in Seq(Reached') /\ Len(events) \in Nat /\ Len(events) <= moves /\ moves \in Nat
    <3>1. events \in Seq(Reached) /\ Len(events) <= moves /\ moves \in Nat
      BY <1>3 DEF PosFeed, PosBounds
    <3> QED BY <1>5, <3>1
  <2>2. Append(events, n) \in Seq(Reached') /\ Len(Append(events, n)) = Len(events) + 1
    BY <1>5, <2>1, AppendProperties
  <2> QED BY <1>1, <1>2, <2>1, <2>2
<1>8. PosFeed'
  <2>1. pLook' \in {<<>>} \cup {<<m>> : m \in Reached'}
    BY <1>2, <1>3, <1>5 DEF PosFeed
  <2> QED BY <1>1, <1>2, <1>3, <1>4, <1>5, <1>7, <2>1 DEF PosFeed
<1>9. PosJobs'
  BY <1>2, <1>3, <1>5 DEF PosJobs, PosJob
<1>10. PosBeliefs'
  BY <1>2, <1>5, SameJobs
<1> QED
  BY <1>2, <1>3, <1>6, <1>8, <1>9, <1>10, PosStay DEF PosInv, PosTypes

LEMMA SocketDropsKept == PosInv /\ Positions!SocketDrops => PosInv'
<1> SUFFICES ASSUME PosInv, Positions!SocketDrops PROVE PosInv'
  OBVIOUS
<1>1. /\ Positions!Command /\ pWsok' = FALSE /\ events' = <<>>
      /\ UNCHANGED <<pLead, moves, peak, pLook, pending, net, baseline, paused, memory, pos, shown, lag, lost,
                   settling, pJob, lockq, saved, flattened, unresolved, pFaults, restarted, pUp>>
  BY DEF Positions!SocketDrops, Positions!leaderVars, Positions!brokerVars
<1>2. PosFeed /\ PosBounds /\ PosFlags /\ PosMemory /\ PosJobs /\ PosLine /\ PosPolls
  BY PosGroups DEF PosInv
<1>3. Reached' = Reached
  BY <1>1 DEF Reached
<1>4. PosFeed'
  <2>1. events' \in Seq(Reached) /\ Len(events') <= moves
    BY <1>1, <1>2 DEF PosBounds
  <2> QED BY <1>1, <1>2, <1>3, <2>1 DEF PosFeed
<1>5. PosBeliefs'
  BY <1>1, <1>3, SameJobs
<1> QED
  BY <1>1, <1>2, <1>4, <1>5, FaultBounds, PosStay DEF PosInv, PosTypes

\* _on_position's claim, by the socket or the poll.
LEMMA Claimed ==
    ASSUME PosInv, NEW t \in {"socket", "poll"}, NEW n \in Reached, Positions!Claim(t, n),
           pUp, pJob[t].stage = "none",
           UNCHANGED <<pos, shown, lag, lost, memory, settling, peak, pUp, pFaults, flattened,
                       restarted, baseline, lockq>>
    PROVE  /\ PosBeliefs' /\ PosJobs' /\ PosLine' /\ net' \in Reached \cup {-1}
           /\ \A u \in Positions!Task : u # t => pJob'[u] = pJob[u]
<1>1. PosFeed /\ PosJobs /\ PosLine
  BY PosGroups DEF PosInv
<1> DEFINE r == [Positions!Done EXCEPT !.stage = IF n = Positions!Net THEN "none" ELSE "named", !.want = n]
<1>2. net' = (IF n = Positions!Net THEN net ELSE n) /\ pJob' = [pJob EXCEPT ![t] = r]
  BY DEF Positions!Claim
<1>3. r \in PosJob /\ r.stage \in {"none", "named"} /\ r.result = "none"
  BY <1>1, DoneJob DEF PosJob, Positions!Stage
<1> HIDE DEF r
<1>4. t \in Positions!Task /\ t # "flatten" /\ t # "reconcile"
  BY DEF Positions!Task
<1>5. RightJob(t, r) /\ QuietJob(t, pJob[t], r)
  BY <1>3, <1>4 DEF RightJob, QuietJob, Asked
<1>6. /\ PosBeliefs' /\ PosJobs'
      /\ pJob'[t] = r /\ \A u \in Positions!Task : u # t => pJob'[u] = pJob[u]
  BY <1>2, <1>3, <1>4, <1>5, QuietStep
<1>7. PosLine'
  <2>1. pJob[t].stage \notin InQueue /\ pJob'[t].stage \notin UnderLock
    BY <1>3, <1>6 DEF InQueue, UnderLock
  <2> QED BY <1>1, <1>6, <2>1, LineStays
<1>8. net' \in Reached \cup {-1}
  BY <1>1, <1>2 DEF PosFeed
<1> QED BY <1>6, <1>7, <1>8

LEMMA SocketSyncsKept == PosInv /\ Positions!SocketSyncs => PosInv'
<1> SUFFICES ASSUME PosInv, Positions!SocketSyncs PROVE PosInv'
  OBVIOUS
<1>1. /\ pUp /\ Positions!Command /\ pJob["socket"].stage = "none" /\ pWsok' = TRUE
      /\ Positions!Claim("socket", pLead)
      /\ UNCHANGED <<pLead, moves, peak, events, pLook, pending, baseline, paused, memory, pos, shown, lag, lost,
                   settling, lockq, saved, flattened, unresolved, pFaults, restarted, pUp>>
  BY DEF Positions!SocketSyncs, Positions!Idle, Positions!leaderVars, Positions!brokerVars
<1>2. PosFeed /\ PosBounds /\ PosFlags /\ PosMemory /\ PosJobs /\ PosLine /\ PosPolls
  BY PosGroups DEF PosInv
<1>3. Reached' = Reached /\ pLead \in Reached
  BY <1>1, <1>2 DEF Reached, PosFeed
<1>4. /\ PosBeliefs' /\ PosJobs' /\ PosLine' /\ net' \in Reached \cup {-1}
      /\ \A u \in Positions!Task : u # "socket" => pJob'[u] = pJob[u]
  BY <1>1, <1>3, Claimed
<1>5. PosFeed'
  BY <1>1, <1>2, <1>3, <1>4 DEF PosFeed
<1>6. PosPolls'
  BY <1>1, <1>2, <1>4 DEF PosPolls, Positions!Task
<1> QED
  BY <1>1, <1>2, <1>4, <1>5, <1>6, FaultBounds, PosStay DEF PosInv, PosTypes

LEMMA OnWsMessageKept == PosInv /\ Positions!OnWsMessage => PosInv'
<1> SUFFICES ASSUME PosInv, Positions!OnWsMessage PROVE PosInv'
  OBVIOUS
<1>1. /\ pUp /\ pJob["socket"].stage = "none" /\ events # <<>>
      /\ Positions!Claim("socket", Head(events)) /\ events' = Tail(events)
      /\ UNCHANGED <<pLead, moves, peak, pWsok, pLook, pending, baseline, paused, memory, pos, shown, lag, lost,
                   settling, lockq, saved, flattened, unresolved, pFaults, commands, restarted, pUp>>
  BY DEF Positions!OnWsMessage, Positions!Idle, Positions!leaderVars, Positions!brokerVars, Positions!boundVars
<1>2. PosFeed /\ PosBounds /\ PosFlags /\ PosMemory /\ PosJobs /\ PosLine /\ PosPolls
  BY PosGroups DEF PosInv
<1>3. Reached' = Reached
  BY <1>1 DEF Reached
<1>4. /\ Head(events) \in Reached /\ Tail(events) \in Seq(Reached)
      /\ Len(Tail(events)) <= moves
  <2>1. events \in Seq(Reached) /\ Len(events) <= moves /\ moves \in Nat /\ Len(events) \in Nat
    <3>1. events \in Seq(Reached) /\ Len(events) <= moves /\ moves \in Nat
      BY <1>2 DEF PosFeed, PosBounds
    <3> QED BY <3>1
  <2>2. /\ Head(events) \in Reached /\ Tail(events) \in Seq(Reached)
        /\ Len(Tail(events)) = Len(events) - 1
    BY <1>1, <2>1, HeadTailProperties
  <2> QED BY <2>1, <2>2
<1>5. /\ PosBeliefs' /\ PosJobs' /\ PosLine' /\ net' \in Reached \cup {-1}
      /\ \A u \in Positions!Task : u # "socket" => pJob'[u] = pJob[u]
  BY <1>1, <1>4, Claimed
<1>6. PosFeed'
  BY <1>1, <1>2, <1>3, <1>4, <1>5 DEF PosFeed
<1>7. PosPolls'
  BY <1>1, <1>2, <1>5 DEF PosPolls, Positions!Task
<1> QED
  BY <1>1, <1>2, <1>5, <1>6, <1>7, PosStay DEF PosInv, PosTypes

LEMMA PollReadsKept == PosInv /\ Positions!PollReads => PosInv'
<1> SUFFICES ASSUME PosInv, Positions!PollReads PROVE PosInv'
  OBVIOUS
<1>1. /\ pUp /\ pJob["poll"].stage = "none" /\ pLook' = <<pLead>>
      /\ UNCHANGED <<pLead, moves, peak, events, pWsok, pending, net, baseline, paused, memory, pos, shown, lag, lost,
                   settling, pJob, lockq, saved, flattened, unresolved, pFaults, commands, restarted, pUp>>
  BY DEF Positions!PollReads, Positions!Idle, Positions!leaderVars, Positions!brokerVars, Positions!boundVars
<1>2. PosFeed /\ PosBounds /\ PosFlags /\ PosMemory /\ PosJobs /\ PosLine /\ PosPolls
  BY PosGroups DEF PosInv
<1>3. Reached' = Reached
  BY <1>1 DEF Reached
<1>4. PosFeed'
  BY <1>1, <1>2, <1>3 DEF PosFeed
<1>5. PosPolls'
  BY <1>1 DEF PosPolls
<1>6. PosBeliefs'
  BY <1>1, <1>3, SameJobs
<1> QED
  BY <1>1, <1>2, <1>4, <1>5, <1>6, PosStay DEF PosInv, PosTypes

LEMMA PollWorksKept == PosInv /\ Positions!PollWorks => PosInv'
<1> SUFFICES ASSUME PosInv, Positions!PollWorks PROVE PosInv'
  OBVIOUS
<1>1. /\ pUp /\ pLook # <<>> /\ pLook' = <<>>
      /\ \/ pending' \in {pLook[1], -1} /\ UNCHANGED <<net, pJob>>
         \/ pending' = -1 /\ Positions!Claim("poll", pLook[1])
      /\ UNCHANGED <<pLead, moves, peak, events, pWsok, baseline, paused, memory, pos, shown, lag, lost,
                   settling, lockq, saved, flattened, unresolved, pFaults, commands, restarted, pUp>>
  BY DEF Positions!PollWorks, Positions!Nothing, Positions!leaderVars, Positions!brokerVars, Positions!boundVars
<1>2. PosFeed /\ PosBounds /\ PosFlags /\ PosMemory /\ PosJobs /\ PosLine /\ PosPolls
  BY PosGroups DEF PosInv
<1>3. Reached' = Reached
  BY <1>1 DEF Reached
<1>4. pLook[1] \in Reached /\ pJob["poll"].stage = "none"
  BY <1>1, <1>2 DEF PosFeed, PosPolls
<1>5. PosPolls'
  BY <1>1 DEF PosPolls
<1>6. CASE UNCHANGED <<net, pJob>> /\ pending' \in {pLook[1], -1}
  <2>1. PosFeed'
    BY <1>1, <1>2, <1>3, <1>4, <1>6 DEF PosFeed
  <2>2. PosBeliefs'
    BY <1>1, <1>3, <1>6, SameJobs
  <2> QED BY <1>1, <1>2, <1>5, <1>6, <2>1, <2>2, PosStay DEF PosInv, PosTypes
<1>7. CASE pending' = -1 /\ Positions!Claim("poll", pLook[1])
  <2>1. PosBeliefs' /\ PosJobs' /\ PosLine' /\ net' \in Reached \cup {-1}
    BY <1>1, <1>4, <1>7, Claimed
  <2>2. PosFeed'
    BY <1>1, <1>2, <1>3, <1>7, <2>1 DEF PosFeed
  <2> QED BY <1>1, <1>2, <1>5, <2>1, <2>2, PosStay DEF PosInv, PosTypes
<1> QED BY <1>1, <1>6, <1>7

LEMMA OnPositionKept == \A t \in Positions!Task : PosInv /\ Positions!OnPosition(t) => PosInv'
<1> SUFFICES ASSUME NEW t \in Positions!Task, PosInv, Positions!OnPosition(t) PROVE PosInv'
  OBVIOUS
<1>1. /\ t \in {"socket", "poll"} /\ pJob[t].stage = "named"
      /\ baseline' = (baseline /\ pJob[t].want # 0)
      /\ \/ /\ pJob' = [pJob EXCEPT ![t] = Positions!Done] /\ UNCHANGED <<lockq, saved>>
         \/ /\ ~baseline /\ saved' = pJob[t].want
            /\ pJob' = [pJob EXCEPT ![t].stage = "waiting"]
            /\ lockq' = Append(lockq, t)
      /\ UNCHANGED <<pLead, moves, peak, events, pWsok, pLook, pending, net, paused, memory, pos, shown, lag, lost,
                   settling, flattened, unresolved, pFaults, commands, restarted, pUp>>
  BY DEF Positions!OnPosition, Positions!Mirrored, Positions!Persist, Positions!At, Positions!Finished,
     Positions!leaderVars, Positions!feedVars, Positions!brokerVars, Positions!boundVars
<1>2. PosFeed /\ PosBounds /\ PosFlags /\ PosMemory /\ PosJobs /\ PosLine /\ PosPolls
  BY PosGroups DEF PosInv
<1>3. Reached' = Reached
  BY <1>1 DEF Reached
<1>4. baseline' \in BOOLEAN /\ (baseline' => baseline)
  BY <1>1, Zenon
<1>5. PosFlags'
  BY <1>1, <1>2, <1>4 DEF PosFlags
<1>6. pJob[t] \in PosJob /\ RightJob(t, pJob[t])
  BY <1>2, RightJobs
<1>7. PosPolls'
  <2>1. t # "poll" => pJob'["poll"] = pJob["poll"]
    BY <1>1, <1>2 DEF PosJobs, Positions!Task
  <2> QED BY <1>1, <1>2, <2>1 DEF PosPolls
<1>8. CASE pJob' = [pJob EXCEPT ![t] = Positions!Done] /\ UNCHANGED <<lockq, saved>>
  <2>1. QuietJob(t, pJob[t], Positions!Done) /\ RightJob(t, Positions!Done) /\ Positions!Done.stage = "none"
    BY <1>1, <1>2, DoneJob DEF QuietJob, Asked
  <2>2. PosBeliefs' /\ PosJobs' /\ pJob'[t] = Positions!Done /\ \A u \in Positions!Task : u # t => pJob'[u] = pJob[u]
    BY <1>1, <1>4, <1>8, <2>1, QuietStep
  <2>3. PosLine'
    BY <1>1, <1>2, <1>8, <2>1, <2>2, LineStays DEF InQueue, UnderLock
  <2>4. PosFeed'
    BY <1>1, <1>2, <1>3, <1>8 DEF PosFeed
  <2> QED BY <1>1, <1>2, <1>5, <1>7, <2>2, <2>3, <2>4, PosStay DEF PosInv, PosTypes
<1>9. CASE ~baseline /\ saved' = pJob[t].want /\ lockq' = Append(lockq, t) /\ pJob' = [pJob EXCEPT ![t].stage = "waiting"]
  <2> DEFINE r == [pJob[t] EXCEPT !.stage = "waiting"]
  <2>1. r \in PosJob /\ r.stage = "waiting" /\ r.result = pJob[t].result
    BY <1>6 DEF PosJob, Positions!Stage
  <2>2. pJob' = [pJob EXCEPT ![t] = r]
    BY <1>9
  <2> HIDE DEF r
  <2>3. RightJob(t, r)
    BY <1>1, <1>6, <2>1 DEF RightJob, Asked
  <2>4. QuietJob(t, pJob[t], r)
    BY <1>1, <2>1 DEF QuietJob, Asked
  <2>5. PosBeliefs' /\ PosJobs' /\ pJob'[t] = r /\ \A u \in Positions!Task : u # t => pJob'[u] = pJob[u]
    BY <1>1, <1>4, <1>9, <2>1, <2>2, <2>3, <2>4, QuietStep
  <2>6. PosLine'
    <3>1. pJob[t].stage \notin InQueue /\ pJob'[t].stage \in InQueue \ UnderLock
      BY <1>1, <2>1, <2>5 DEF InQueue, UnderLock
    <3> QED BY <1>2, <1>9, <2>5, <3>1, LineJoins
  <2>7. PosFeed'
    <3>1. pJob[t].want \in Reached
      BY <1>6 DEF PosJob
    <3> QED BY <1>1, <1>2, <1>3, <1>9, <3>1 DEF PosFeed
  <2> QED BY <1>1, <1>2, <1>5, <1>7, <2>5, <2>6, <2>7, PosStay DEF PosInv, PosTypes
<1> QED BY <1>1, <1>8, <1>9

LEMMA ReconcileReadsKept == PosInv /\ Positions!ReconcileReads => PosInv'
<1> SUFFICES ASSUME PosInv, Positions!ReconcileReads PROVE PosInv'
  OBVIOUS
<1> DEFINE r == [Positions!Done EXCEPT !.stage = "listed", !.have = shown,
                     !.result = IF settling = "sent" THEN "taken" ELSE "none"]
<1>1. /\ pUp /\ pJob["reconcile"].stage = "none"
      /\ \/ pJob' = [pJob EXCEPT !["reconcile"] = r] /\ UNCHANGED pFaults
         \/ Positions!Fault /\ UNCHANGED pJob
      /\ UNCHANGED <<pLead, moves, peak, events, pWsok, pLook, pending, net, baseline, paused, memory, pos, shown, lag, lost,
                   settling, lockq, saved, flattened, unresolved, commands, restarted, pUp>>
  BY DEF Positions!ReconcileReads, Positions!Idle, Positions!leaderVars, Positions!feedVars, Positions!brokerVars
<1>2. PosFeed /\ PosBounds /\ PosFlags /\ PosMemory /\ PosJobs /\ PosLine /\ PosPolls
  BY PosGroups DEF PosInv
<1>3. "reconcile" \in Positions!Task
  BY DEF Positions!Task
<1>4. /\ r \in PosJob /\ r.stage = "listed" /\ r.have = shown /\ r.result \in {"taken", "none"}
      /\ settling = "sent" => r.result = "taken"
  <2>1. shown \in Int /\ Positions!Done \in PosJob
    BY <1>2, DoneJob DEF PosMemory
  <2> QED BY <2>1 DEF PosJob, Positions!Stage
<1> HIDE DEF r
<1>5. CASE pJob' = [pJob EXCEPT !["reconcile"] = r] /\ UNCHANGED pFaults
  <2>1. RightJob("reconcile", r) /\ QuietJob("reconcile", pJob["reconcile"], r)
    BY <1>1, <1>4 DEF RightJob, QuietJob, Asked
  <2>2. /\ PosBeliefs' /\ PosJobs'
        /\ pJob'["reconcile"] = r /\ \A u \in Positions!Task : u # "reconcile" => pJob'[u] = pJob[u]
    BY <1>1, <1>3, <1>4, <1>5, <2>1, QuietStep
  <2>3. PosLine'
    BY <1>1, <1>2, <1>4, <2>2, LineStays DEF InQueue, UnderLock
  <2>4. PosPolls'
    BY <1>1, <1>2, <2>2 DEF PosPolls, Positions!Task
  <2> QED BY <1>1, <1>2, <1>5, <2>2, <2>3, <2>4, PosStay DEF PosInv, PosTypes
<1>6. CASE Positions!Fault /\ UNCHANGED pJob
  <2>1. PosBounds' /\ (pFaults' = 0 => pFaults = 0)
    BY <1>1, <1>2, <1>6, FaultBounds
  <2>2. PosBeliefs'
    BY <1>1, <1>6, <2>1, SameReached, SameJobs
  <2> QED BY <1>1, <1>2, <1>6, <2>1, <2>2, PosStay DEF PosInv, PosTypes
<1> QED BY <1>1, <1>5, <1>6

LEMMA ReconcileListedKept == PosInv /\ Positions!ReconcileListed => PosInv'
<1> SUFFICES ASSUME PosInv, Positions!ReconcileListed PROVE PosInv'
  OBVIOUS
<1>1. /\ pJob["reconcile"].stage = "listed"
      /\ \/ pJob' = [pJob EXCEPT !["reconcile"] = Positions!Done] /\ UNCHANGED lockq
         \/ /\ ~baseline /\ net # -1
            /\ pJob' = [pJob EXCEPT !["reconcile"].stage = "checking", !["reconcile"].want = net]
            /\ lockq' = Append(lockq, "reconcile")
      /\ UNCHANGED <<pLead, moves, peak, events, pWsok, pLook, pending, net, baseline, paused, memory, pos, shown, lag, lost,
                   settling, saved, flattened, unresolved, pFaults, commands, restarted, pUp>>
  BY DEF Positions!ReconcileListed, Positions!Nothing, Positions!Finished, Positions!leaderVars,
     Positions!feedVars, Positions!brokerVars, Positions!boundVars
<1>2. PosFeed /\ PosBounds /\ PosFlags /\ PosMemory /\ PosJobs /\ PosLine /\ PosPolls
  BY PosGroups DEF PosInv
<1>3. "reconcile" \in Positions!Task
  BY DEF Positions!Task
<1>4. pJob["reconcile"] \in PosJob /\ RightJob("reconcile", pJob["reconcile"])
  BY <1>2, <1>3, RightJobs
<1>5. PosPolls'
  <2>1. pJob'["poll"] = pJob["poll"]
    BY <1>1, <1>2 DEF PosJobs, Positions!Task
  <2> QED BY <1>1, <1>2, <2>1 DEF PosPolls
<1>6. CASE pJob' = [pJob EXCEPT !["reconcile"] = Positions!Done] /\ UNCHANGED lockq
  <2>1. /\ QuietJob("reconcile", pJob["reconcile"], Positions!Done) /\ RightJob("reconcile", Positions!Done)
        /\ Positions!Done.stage = "none"
    BY <1>1, <1>2, DoneJob DEF QuietJob, Asked
  <2>2. /\ PosBeliefs' /\ PosJobs' /\ pJob'["reconcile"] = Positions!Done
        /\ \A u \in Positions!Task : u # "reconcile" => pJob'[u] = pJob[u]
    BY <1>1, <1>3, <1>6, <2>1, QuietStep
  <2>3. PosLine'
    BY <1>1, <1>2, <1>6, <2>1, <2>2, LineStays DEF InQueue, UnderLock
  <2> QED BY <1>1, <1>2, <1>5, <2>2, <2>3, PosStay DEF PosInv, PosTypes
<1>7. CASE /\ ~baseline /\ net # -1
           /\ pJob' = [pJob EXCEPT !["reconcile"].stage = "checking", !["reconcile"].want = net]
           /\ lockq' = Append(lockq, "reconcile")
  <2> DEFINE r == [pJob["reconcile"] EXCEPT !.stage = "checking", !.want = net]
  <2>1. /\ r \in PosJob /\ r.stage = "checking" /\ r.result = pJob["reconcile"].result
        /\ r.have = pJob["reconcile"].have
    <3>1. net \in Reached
      BY <1>2, <1>7 DEF PosFeed
    <3> QED BY <1>4, <3>1 DEF PosJob, Positions!Stage
  <2>2. pJob' = [pJob EXCEPT !["reconcile"] = r]
    BY <1>7
  <2> HIDE DEF r
  <2>3. RightJob("reconcile", r)
    BY <1>1, <1>4, <2>1 DEF RightJob, Asked
  <2>4. QuietJob("reconcile", pJob["reconcile"], r)
    BY <1>1, <2>1 DEF QuietJob, Asked
  <2>5. /\ PosBeliefs' /\ PosJobs' /\ pJob'["reconcile"] = r
        /\ \A u \in Positions!Task : u # "reconcile" => pJob'[u] = pJob[u]
    BY <1>1, <1>3, <1>7, <2>1, <2>2, <2>3, <2>4, QuietStep
  <2>6. PosLine'
    <3>1. pJob["reconcile"].stage \notin InQueue /\ pJob'["reconcile"].stage \in InQueue \ UnderLock
      BY <1>1, <2>1, <2>5 DEF InQueue, UnderLock
    <3> QED BY <1>2, <1>3, <1>7, <2>5, <3>1, LineJoins
  <2> QED BY <1>1, <1>2, <1>5, <2>5, <2>6, PosStay DEF PosInv, PosTypes
<1> QED BY <1>1, <1>6, <1>7

LEMMA SyncNowKept == PosInv /\ Positions!SyncNow => PosInv'
<1> SUFFICES ASSUME PosInv, Positions!SyncNow PROVE PosInv'
  OBVIOUS
<1> DEFINE r == [Positions!Done EXCEPT !.stage = "waiting", !.want = net]
<1>1. /\ pUp /\ Positions!Command /\ pJob["sync"].stage = "none"
      /\ baseline' = FALSE /\ paused' = FALSE /\ unresolved' = FALSE /\ saved' = Positions!Net
      /\ \/ UNCHANGED <<pJob, lockq>>
         \/ /\ net # -1 /\ pJob' = [pJob EXCEPT !["sync"] = r] /\ lockq' = Append(lockq, "sync")
      /\ UNCHANGED <<pLead, moves, peak, events, pWsok, pLook, pending, net, memory, pos, shown, lag, lost,
                   settling, flattened, pFaults, restarted, pUp>>
  BY DEF Positions!SyncNow, Positions!Idle, Positions!Persist, Positions!Net, Positions!Nothing,
     Positions!leaderVars, Positions!feedVars, Positions!brokerVars
<1>2. PosFeed /\ PosBounds /\ PosFlags /\ PosMemory /\ PosJobs /\ PosLine /\ PosPolls
  BY PosGroups DEF PosInv
<1>3. Reached' = Reached
  BY <1>1 DEF Reached
<1>4. PosFeed'
  <2>1. Positions!Net \in Reached
    BY <1>2 DEF PosFeed, Positions!Net, Positions!Nothing, Reached
  <2> QED BY <1>1, <1>2, <1>3, <2>1 DEF PosFeed
<1>5. PosBounds' /\ PosFlags'
  BY <1>1, <1>2, FaultBounds DEF PosFlags
<1>6. CASE UNCHANGED <<pJob, lockq>>
  <2>1. PosBeliefs'
    BY <1>1, <1>3, <1>6, SameJobs
  <2> QED BY <1>1, <1>2, <1>4, <1>5, <1>6, <2>1, PosStay DEF PosInv, PosTypes
<1>7. CASE net # -1 /\ pJob' = [pJob EXCEPT !["sync"] = r] /\ lockq' = Append(lockq, "sync")
  <2>1. r \in PosJob /\ r.stage = "waiting" /\ r.result = "none" /\ "sync" \in Positions!Task
    <3>1. net \in Reached
      BY <1>2, <1>7 DEF PosFeed
    <3> QED BY <1>2, <3>1, DoneJob DEF PosJob, Positions!Stage, Positions!Task
  <2> HIDE DEF r
  <2>2. RightJob("sync", r) /\ QuietJob("sync", pJob["sync"], r)
    BY <1>1, <2>1 DEF RightJob, QuietJob, Asked
  <2>3. PosBeliefs' /\ PosJobs' /\ pJob'["sync"] = r /\ \A u \in Positions!Task : u # "sync" => pJob'[u] = pJob[u]
    BY <1>1, <1>7, <2>1, <2>2, QuietStep
  <2>4. PosLine'
    <3>1. pJob["sync"].stage \notin InQueue /\ pJob'["sync"].stage \in InQueue \ UnderLock
      BY <1>1, <2>1, <2>3 DEF InQueue, UnderLock
    <3> QED BY <1>2, <1>7, <2>1, <2>3, <3>1, LineJoins
  <2>5. PosPolls'
    BY <1>1, <1>2, <2>3 DEF PosPolls, Positions!Task
  <2> QED BY <1>1, <1>2, <1>4, <1>5, <2>3, <2>4, <2>5, PosStay DEF PosInv, PosTypes
<1> QED BY <1>1, <1>6, <1>7

LEMMA ResumeKept == PosInv /\ Positions!Resume => PosInv'
<1> SUFFICES ASSUME PosInv, Positions!Resume PROVE PosInv'
  OBVIOUS
<1>1. /\ paused' = FALSE
      /\ UNCHANGED <<pLead, moves, peak, events, pWsok, pLook, pending, net, baseline, memory, pos, shown, lag, lost,
                   settling, pJob, lockq, saved, flattened, unresolved, pFaults, commands, restarted, pUp>>
  BY DEF Positions!Resume, Positions!leaderVars, Positions!feedVars, Positions!brokerVars, Positions!boundVars
<1>2. PosFlags'
  BY <1>1, PosGroups DEF PosInv, PosFlags
<1>3. PosBeliefs'
  BY <1>1, SameReached, SameJobs
<1> QED BY <1>1, <1>2, <1>3, PosGroups, PosStay DEF PosInv, PosTypes

LEMMA FlattenKept == PosInv /\ Positions!Flatten => PosInv'
<1> SUFFICES ASSUME PosInv, Positions!Flatten PROVE PosInv'
  OBVIOUS
<1> DEFINE r == [Positions!Done EXCEPT !.stage = "closing"]
<1>1. /\ pUp /\ Positions!Command /\ pJob["flatten"].stage = "none"
      /\ flattened' = TRUE /\ unresolved' = FALSE /\ paused' \in {paused, TRUE}
      /\ \/ UNCHANGED <<pJob, lockq>>
         \/ pJob' = [pJob EXCEPT !["flatten"] = r] /\ lockq' = Append(lockq, "flatten")
      /\ UNCHANGED <<pLead, moves, peak, events, pWsok, pLook, pending, net, baseline, memory, pos, shown, lag, lost,
                   settling, saved, pFaults, restarted, pUp>>
  BY DEF Positions!Flatten, Positions!Idle, Positions!leaderVars, Positions!feedVars, Positions!brokerVars
<1>2. PosFeed /\ PosBounds /\ PosFlags /\ PosMemory /\ PosJobs /\ PosLine /\ PosPolls
  BY PosGroups DEF PosInv
<1>3. PosBounds' /\ PosFlags'
  BY <1>1, <1>2, FaultBounds DEF PosFlags
<1>4. CASE UNCHANGED <<pJob, lockq>>
  <2>1. PosBeliefs'
    BY <1>1, <1>4, SameReached, SameJobs
  <2>2. PosJobs'
    <3>1. Reached' = Reached
      BY <1>1 DEF Reached
    <3> QED BY <1>1, <1>2, <1>4, <3>1 DEF PosJobs, PosJob
  <2> QED BY <1>1, <1>2, <1>3, <1>4, <2>1, <2>2, PosStay DEF PosInv, PosTypes
<1>5. CASE pJob' = [pJob EXCEPT !["flatten"] = r] /\ lockq' = Append(lockq, "flatten")
  <2>1. r \in PosJob /\ r.stage = "closing" /\ r.result = "none" /\ "flatten" \in Positions!Task
    BY <1>2, DoneJob DEF PosJob, Positions!Stage, Positions!Task
  <2> HIDE DEF r
  <2>2. RightJob("flatten", r) /\ QuietJob("flatten", pJob["flatten"], r)
    BY <1>1, <2>1 DEF RightJob, QuietJob, Asked
  <2>3. PosBeliefs' /\ PosJobs' /\ pJob'["flatten"] = r /\ \A u \in Positions!Task : u # "flatten" => pJob'[u] = pJob[u]
    BY <1>1, <1>5, <2>1, <2>2, QuietStep
  <2>4. PosLine'
    <3>1. pJob["flatten"].stage \notin InQueue /\ pJob'["flatten"].stage \in InQueue \ UnderLock
      BY <1>1, <2>1, <2>3 DEF InQueue, UnderLock
    <3> QED BY <1>2, <1>5, <2>1, <2>3, <3>1, LineJoins
  <2>5. PosPolls'
    BY <1>1, <1>2, <2>3 DEF PosPolls, Positions!Task
  <2> QED BY <1>1, <1>2, <1>3, <2>3, <2>4, <2>5, PosStay DEF PosInv, PosTypes
<1> QED BY <1>1, <1>4, <1>5

-----------------------------------------------------------------------------
(* Orders of the mirror *)

\* place_order, for a task whose job becomes sent or closed.
LEMMA PlaceOrderFacts ==
    ASSUME PosJobs, NEW t \in Positions!Task, NEW s \in Asked, NEW delta,
           Positions!PlaceOrder(t, delta, [pJob EXCEPT ![t].stage = s])
    PROVE  /\ shown' = IF lag THEN shown ELSE pos'
           /\ \E res \in {"taken", "failed"} :
                /\ pJob' = [pJob EXCEPT ![t] = [pJob[t] EXCEPT !.stage = s, !.result = res]]
                /\ \/ res = "taken" /\ pos' = pos + delta /\ UNCHANGED <<pFaults, lost>>
                   \/ /\ res = "failed" /\ Positions!Fault
                      /\ \/ UNCHANGED <<pos, lost>>
                         \/ pos' = pos + delta /\ lost' = TRUE
<1>1. pJob \in [Positions!Task -> PosJob]
  BY DEF PosJobs
<1>2. ASSUME NEW v
      PROVE  [[pJob EXCEPT ![t].stage = s] EXCEPT ![t].result = v]
               = [pJob EXCEPT ![t] = [pJob[t] EXCEPT !.stage = s, !.result = v]]
  <2>1. [pJob EXCEPT ![t].stage = s][t] = [pJob[t] EXCEPT !.stage = s]
    BY <1>1
  <2>2. [[pJob[t] EXCEPT !.stage = s] EXCEPT !.result = v] = [pJob[t] EXCEPT !.stage = s, !.result = v]
    OBVIOUS
  <2> DEFINE j == [pJob EXCEPT ![t].stage = s]
  <2>3. j \in [Positions!Task -> {j[u] : u \in Positions!Task}] /\ \A u \in Positions!Task : u # t => j[u] = pJob[u]
    BY <1>1
  <2>4. j[t] = [pJob[t] EXCEPT !.stage = s]
    BY <2>1
  <2> HIDE DEF j
  <2>5. [j EXCEPT ![t].result = v] = [j EXCEPT ![t] = [pJob[t] EXCEPT !.stage = s, !.result = v]]
    BY <2>2, <2>4
  <2>6. [j EXCEPT ![t] = [pJob[t] EXCEPT !.stage = s, !.result = v]]
          = [pJob EXCEPT ![t] = [pJob[t] EXCEPT !.stage = s, !.result = v]]
    BY <1>1, <2>3
  <2> QED BY <2>5, <2>6 DEF j
<1>3. \/ /\ pJob' = [pJob EXCEPT ![t] = [pJob[t] EXCEPT !.stage = s, !.result = "taken"]]
         /\ pos' = pos + delta /\ UNCHANGED <<pFaults, lost>>
      \/ /\ pJob' = [pJob EXCEPT ![t] = [pJob[t] EXCEPT !.stage = s, !.result = "failed"]]
         /\ Positions!Fault
         /\ \/ UNCHANGED <<pos, lost>>
            \/ pos' = pos + delta /\ lost' = TRUE
  BY <1>2 DEF Positions!PlaceOrder
<1>4. shown' = IF lag THEN shown ELSE pos'
  BY DEF Positions!PlaceOrder
<1> QED BY <1>3, <1>4

\* An order to bring the follower from where it is believed to be to where it is to go.
LEMMA AskedKept ==
    ASSUME PosInv, NEW t \in Positions!Task, NEW s \in Asked, NEW delta \in Int, NEW goal,
           Positions!PlaceOrder(t, delta, [pJob EXCEPT ![t].stage = s]),
           Positions!Holds(t), pJob[t].stage \in InQueue \ Asked,
           s = "closed" => t = "flatten",
           goal = (IF s = "sent" THEN pJob[t].want ELSE 0),
           Sure => pos + delta = goal,
           Sure => memory' \in {<<>>, <<pos>>},
           Sure /\ lag => memory' # <<>> \/ flattened,
           baseline => flattened \/ restarted,
           UNCHANGED <<lag, settling, peak, pUp, restarted, flattened, baseline, moves, commands, lockq>>
    PROVE  /\ PosBeliefs' /\ PosJobs' /\ PosLine' /\ PosBounds'
           /\ pos' \in Int /\ shown' \in Int /\ lost' \in BOOLEAN
           /\ \A u \in Positions!Task : u # t => pJob'[u] = pJob[u]
<1>1. PosFeed /\ PosBounds /\ PosFlags /\ PosMemory /\ PosJobs /\ PosLine /\ PosPolls
  BY PosGroups DEF PosInv
<1>2. PICK res \in {"taken", "failed"} :
                /\ pJob' = [pJob EXCEPT ![t] = [pJob[t] EXCEPT !.stage = s, !.result = res]]
                /\ \/ res = "taken" /\ pos' = pos + delta /\ UNCHANGED <<pFaults, lost>>
                   \/ /\ res = "failed" /\ Positions!Fault
                      /\ \/ UNCHANGED <<pos, lost>>
                         \/ pos' = pos + delta /\ lost' = TRUE
  BY <1>1, PlaceOrderFacts
<1>3. shown' = IF lag THEN shown ELSE pos'
  BY <1>1, PlaceOrderFacts
<1>4. pJob[t] \in PosJob /\ RightJob(t, pJob[t]) /\ (t = "flatten" => flattened)
  BY <1>1, RightJobs DEF InQueue
<1> DEFINE r == [pJob[t] EXCEPT !.stage = s, !.result = res]
<1>5. r \in PosJob /\ r.stage = s /\ r.result = res /\ r.want = pJob[t].want
  BY <1>4 DEF PosJob, Positions!Stage, Asked
<1>6. pJob' = [pJob EXCEPT ![t] = r]
  BY <1>2
<1> HIDE DEF r
<1>7. RightJob(t, r)
  BY <1>4, <1>5 DEF RightJob, Asked, InQueue
<1>8. PosJobs' /\ pJob'[t] = r /\ \A u \in Positions!Task : u # t => pJob'[u] = pJob[u]
  BY <1>1, <1>4, <1>6, <1>7, OneJob
<1>9. \A u \in Positions!Task : u # t => pJob[u].stage \notin UnderLock /\ pJob'[u].stage \notin UnderLock
  BY <1>1, <1>8, AloneUnderLock
<1>10. NoneAsked
  BY <1>9 DEF NoneAsked, Asked, UnderLock
<1>11. /\ Sure' => Sure
       /\ Sure' => lost' = FALSE
       /\ PosBounds' /\ (res = "failed" => pFaults' # 0) /\ (pFaults' = 0 => pFaults = 0)
  <2>1. PosBounds' /\ (pFaults' = 0 => pFaults = 0)
    BY <1>1, <1>2, FaultBounds
  <2>2. res = "failed" => pFaults' # 0
    BY <1>1, <1>2, FaultBounds
  <2>3. lost => lost'
    BY <1>2
  <2> QED BY <1>1, <2>1, <2>2, <2>3 DEF Sure, PosFlags
<1>12. Sure' => pos' = goal \/ (res = "failed" /\ pos' = pos)
  BY <1>2, <1>11
<1>13. res = "taken" => (Sure' => pos' = goal)
  BY <1>2, <1>11
<1>14. res = "failed" => (Sure' => pos' = pos)
  BY <1>2, <1>11
<1>15. PosWithin'
  <2>1. Reached' = Reached /\ 0 \in Reached /\ pJob[t].want \in Reached
    BY <1>1, <1>4, Sizes DEF Reached, PosFeed, PosJob
  <2> QED BY <1>11, <1>12, <2>1 DEF PosWithin, PosInv, PosBeliefs
<1>16. ~(NoneAsked')
  BY <1>5, <1>8 DEF NoneAsked
<1>17. ListTrue'
  BY <1>3, <1>16 DEF ListTrue
<1>18. MemoryTrue'
  BY <1>16 DEF MemoryTrue
<1>19. MemoryKept'
  BY <1>11 DEF MemoryKept, Sure
<1>20. AskedTrue'
  <2> SUFFICES ASSUME Sure', NEW u \in Positions!Task, pJob'[u].stage \in Asked
               PROVE  IF pJob'[u].result = "taken" THEN pos' = (IF pJob'[u].stage = "sent" THEN pJob'[u].want ELSE 0)
                      ELSE memory' \in {<<>>, <<pos'>>}
    BY DEF AskedTrue
  <2>1. u = t
    BY <1>9 DEF Asked, UnderLock
  <2>2. CASE res = "taken"
    BY <1>5, <1>8, <1>13, <2>1, <2>2
  <2>3. CASE res = "failed"
    BY <1>5, <1>8, <1>11, <1>14, <2>1, <2>3
  <2> QED BY <2>2, <2>3
<1>21. LookTrue'
  <2> SUFFICES ASSUME Sure', pJob'["reconcile"].stage \in {"listed", "checking"}, pJob'["reconcile"].result # "taken",
                      ~\E u \in Positions!Task : pJob'[u].stage \in Asked /\ pJob'[u].result = "taken"
               PROVE  pJob'["reconcile"].have = pos'
    BY DEF LookTrue
  <2>1. res = "failed" /\ t # "reconcile" /\ "reconcile" \in Positions!Task
    BY <1>5, <1>8 DEF Asked, Positions!Task
  <2>2. pJob'["reconcile"] = pJob["reconcile"] /\ pos' = pos
    BY <1>8, <1>14, <2>1
  <2>3. ~\E u \in Positions!Task : pJob[u].stage \in Asked
    BY <1>10 DEF NoneAsked
  <2> QED BY <1>11, <2>2, <2>3 DEF PosInv, PosBeliefs, LookTrue
<1>22. ReadsUnknown'
  BY <1>5, <1>8, <1>9 DEF ReadsUnknown, UnderLock, Asked
<1>23. NoFailure'
  <2> SUFFICES ASSUME pFaults' = 0
               PROVE  /\ \A u \in Positions!Task : pJob'[u].result # "failed"
                      /\ ~(lost')
                      /\ ~flattened' => settling' # "failed"
    BY DEF NoFailure
  <2>1. res = "taken" /\ pFaults = 0 /\ lost' = lost
    BY <1>2, <1>11
  <2> QED BY <1>5, <1>8, <2>1 DEF PosInv, PosBeliefs, NoFailure
<1>24. BaselineFlat'
  BY DEF BaselineFlat
<1>25. PosLine'
  BY <1>1, <1>5, <1>8, LineStays DEF InQueue, UnderLock, Asked
<1>26. pos' \in Int /\ shown' \in Int /\ lost' \in BOOLEAN
  <2>1. pos' \in Int
    BY <1>1, <1>2 DEF PosMemory
  <2>2. shown' \in Int
    BY <1>1, <1>3, <2>1 DEF PosMemory
  <2>3. lost' = lost \/ lost' = TRUE
    BY <1>2
  <2>4. lost' \in BOOLEAN
    BY <1>1, <2>3 DEF PosFlags
  <2> QED BY <2>1, <2>2, <2>4
<1> QED
  BY <1>8, <1>11, <1>15, <1>17, <1>18, <1>19, <1>20, <1>21, <1>22, <1>23, <1>24, <1>25, <1>26 DEF PosBeliefs

\* The job of a task that leaves the line is done.
LEMMA LeaveKept ==
    ASSUME PosInv, NEW t \in Positions!Task, Positions!Holds(t), Positions!Leave(t),
           pJob[t].stage \notin Asked,
           UNCHANGED <<pos, shown, lag, lost, memory, settling, peak, pUp>>,
           pFaults' = 0 => pFaults = 0, UNCHANGED <<flattened, restarted, baseline, pLook>>
    PROVE  PosBeliefs' /\ PosJobs' /\ PosLine' /\ PosPolls'
<1>1. PosFeed /\ PosJobs /\ PosLine /\ PosPolls
  BY PosGroups DEF PosInv
<1>2. pJob' = [pJob EXCEPT ![t] = Positions!Done] /\ lockq' = Tail(lockq)
  BY DEF Positions!Leave, Positions!Finished
<1>3. QuietJob(t, pJob[t], Positions!Done) /\ RightJob(t, Positions!Done) /\ Positions!Done.stage = "none"
  BY <1>1, DoneJob DEF QuietJob, Asked
<1>4. PosBeliefs' /\ PosJobs' /\ pJob'[t] = Positions!Done /\ \A u \in Positions!Task : u # t => pJob'[u] = pJob[u]
  BY <1>2, <1>3, QuietStep
<1>5. PosLine'
  BY <1>1, <1>2, <1>3, <1>4, LineLeaves DEF UnderLock
<1>6. PosPolls'
  BY <1>1, <1>3, <1>4 DEF PosPolls, Positions!Task
<1> QED BY <1>4, <1>5, <1>6

LEMMA SendKept ==
    ASSUME PosInv, NEW t \in Positions!Task, Positions!Holds(t), pJob[t].stage \in {"waiting", "reading"},
           NEW have \in Int, Sure => have = pos, Positions!Send(t, have),
           UNCHANGED <<pLead, moves, peak, events, pWsok, pLook, pending, net, baseline, paused, lag,
                   settling, saved, flattened, unresolved, commands, restarted, pUp>>
    PROVE  PosInv'
<1>1. PosFeed /\ PosBounds /\ PosFlags /\ PosMemory /\ PosJobs /\ PosLine /\ PosPolls
  BY PosGroups DEF PosInv
<1>2. memory' = <<have>> /\ memory' # <<>>
  BY DEF Positions!Send
<1>3. baseline => flattened \/ restarted
  BY DEF PosInv, PosBeliefs, BaselineFlat
<1>4. CASE pJob[t].want - have = 0
  <2>1. Positions!Leave(t) /\ UNCHANGED <<pos, shown, lost, pFaults>>
    BY <1>4 DEF Positions!Send
  <2> DEFINE j == Positions!Done
  <2>2. pJob' = [pJob EXCEPT ![t] = j] /\ lockq' = Tail(lockq)
    BY <2>1 DEF Positions!Leave, Positions!Finished
  <2>3. RightJob(t, j) /\ j.stage = "none" /\ j.result = "none"
    BY <1>1, DoneJob
  <2> HIDE DEF j
  <2>4. PosJobs' /\ pJob'[t] = j /\ \A u \in Positions!Task : u # t => pJob'[u] = pJob[u]
    BY <1>1, <2>2, <2>3, OneJob
  <2>5. PosLine'
    BY <1>1, <2>2, <2>3, <2>4, LineLeaves DEF UnderLock
  <2>6. PosPolls'
    BY <1>1, <2>3, <2>4 DEF PosPolls, Positions!Task
  <2>7. PosMemory'
    BY <1>1, <1>2, <2>1 DEF PosMemory
  <2>8. Sure' <=> Sure
    BY <2>1 DEF Sure
  <2>9. \A u \in Positions!Task : pJob[u].stage \notin Asked /\ pJob'[u].stage \notin UnderLock
    BY <1>1, <2>3, <2>4, AloneUnderLock DEF Asked, UnderLock
  <2>10. NoneAsked /\ NoneAsked'
    BY <2>9 DEF NoneAsked, Asked, UnderLock
  <2>11. PosWithin' /\ ListTrue'
    BY <2>1, <2>8, <2>10 DEF PosInv, PosBeliefs, PosWithin, ListTrue, Reached
  <2>12. MemoryTrue' /\ MemoryKept'
    BY <1>2, <2>1, <2>8 DEF MemoryTrue, MemoryKept
  <2>13. AskedTrue' /\ ReadsUnknown'
    BY <2>9 DEF AskedTrue, ReadsUnknown, Asked, UnderLock
  <2>14. LookTrue'
    <3>1. "reconcile" \in Positions!Task /\ (t = "reconcile" => pJob'["reconcile"].stage = "none")
      BY <2>3, <2>4 DEF Positions!Task
    <3>2. ~\E u \in Positions!Task : pJob[u].stage \in Asked
      BY <2>9
    <3> QED BY <2>1, <2>4, <2>8, <3>1, <3>2 DEF PosInv, PosBeliefs, LookTrue
  <2>15. NoFailure'
    BY <2>1, <2>3, <2>4 DEF PosInv, PosBeliefs, NoFailure
  <2>16. BaselineFlat'
    BY <1>3 DEF BaselineFlat
  <2>17. PosBeliefs'
    BY <2>11, <2>12, <2>13, <2>14, <2>15, <2>16 DEF PosBeliefs
  <2> QED BY <1>1, <2>1, <2>4, <2>5, <2>6, <2>7, <2>17, PosStay DEF PosInv, PosTypes
<1>5. CASE pJob[t].want - have # 0
  <2> DEFINE delta == pJob[t].want - have
  <2>1. Positions!PlaceOrder(t, delta, [pJob EXCEPT ![t].stage = "sent"]) /\ lockq' = lockq
    BY <1>5 DEF Positions!Send
  <2>2. pJob[t].want \in Int
    <3>1. pJob[t] \in PosJob
      BY <1>1 DEF PosJobs
    <3> QED BY <1>1, <3>1, Sizes DEF PosJob, Reached, PosFeed
  <2>3. delta \in Int /\ (Sure => pos + delta = pJob[t].want)
    BY <1>1, <2>2 DEF PosMemory
  <2> HIDE DEF delta
  <2>4. "sent" \in Asked /\ pJob[t].stage \in InQueue \ Asked
    BY DEF InQueue, Asked
  <2>5. Sure => memory' \in {<<>>, <<pos>>}
    BY <1>2
  <2>6. /\ PosBeliefs' /\ PosJobs' /\ PosLine' /\ PosBounds'
        /\ pos' \in Int /\ shown' \in Int /\ lost' \in BOOLEAN
        /\ \A u \in Positions!Task : u # t => pJob'[u] = pJob[u]
    BY <1>2, <1>3, <2>1, <2>3, <2>4, <2>5, AskedKept
  <2>7. PosMemory' /\ PosFlags'
    BY <1>1, <1>2, <2>6 DEF PosMemory, PosFlags
  <2>8. PosPolls'
    <3>1. t = "poll" => pLook = <<>>
      BY <1>1 DEF PosPolls
    <3> QED BY <1>1, <2>6, <3>1 DEF PosPolls, Positions!Task
  <2> QED BY <1>1, <2>6, <2>7, <2>8, PosStay DEF PosInv, PosTypes
<1> QED BY <1>4, <1>5

LEMMA MirrorBeginsKept == \A t \in Positions!Task : PosInv /\ Positions!MirrorBegins(t) => PosInv'
<1> SUFFICES ASSUME NEW t \in Positions!Task, PosInv, Positions!MirrorBegins(t) PROVE PosInv'
  OBVIOUS
<1>1. /\ pJob[t].stage = "waiting" /\ Positions!Holds(t)
      /\ \/ Positions!Leave(t) /\ UNCHANGED <<memory, pos, shown, lost, pFaults>>
         \/ /\ memory = <<>> /\ Positions!At(t, "reading")
            /\ UNCHANGED <<lockq, memory, pos, shown, lost, pFaults>>
         \/ memory # <<>> /\ Positions!Send(t, memory[1])
      /\ UNCHANGED <<pLead, moves, peak, events, pWsok, pLook, pending, net, baseline, paused, lag,
                   settling, saved, flattened, unresolved, commands, restarted, pUp>>
  BY DEF Positions!MirrorBegins, Positions!Unknown, Positions!leaderVars, Positions!feedVars
<1>2. PosFeed /\ PosBounds /\ PosFlags /\ PosMemory /\ PosJobs /\ PosLine /\ PosPolls
  BY PosGroups DEF PosInv
<1>3. CASE Positions!Leave(t) /\ UNCHANGED <<memory, pos, shown, lost, pFaults>>
  <2>1. PosBeliefs' /\ PosJobs' /\ PosLine' /\ PosPolls'
    BY <1>1, <1>3, LeaveKept DEF Asked
  <2> QED BY <1>1, <1>2, <1>3, <2>1, PosStay DEF PosInv, PosTypes
<1>4. CASE memory = <<>> /\ Positions!At(t, "reading") /\ UNCHANGED <<lockq, memory, pos, shown, lost, pFaults>>
  <2> DEFINE r == [pJob[t] EXCEPT !.stage = "reading"]
  <2>1. pJob' = [pJob EXCEPT ![t] = r]
    BY <1>4 DEF Positions!At
  <2>2. pJob[t] \in PosJob /\ RightJob(t, pJob[t]) /\ (t = "flatten" => flattened)
    BY <1>1, <1>2, RightJobs
  <2>3. r \in PosJob /\ r.stage = "reading" /\ r.result = pJob[t].result
    BY <2>2 DEF PosJob, Positions!Stage
  <2> HIDE DEF r
  <2>4. RightJob(t, r) /\ QuietJob(t, pJob[t], r)
    BY <1>1, <1>4, <2>2, <2>3 DEF RightJob, QuietJob, Asked
  <2>5. PosBeliefs' /\ PosJobs' /\ pJob'[t] = r /\ \A u \in Positions!Task : u # t => pJob'[u] = pJob[u]
    BY <1>1, <1>4, <2>1, <2>2, <2>4, QuietStep
  <2>6. PosLine'
    BY <1>1, <1>2, <1>4, <2>3, <2>5, LineStays DEF InQueue, UnderLock
  <2>7. PosPolls'
    <3>1. t = "poll" => pLook = <<>>
      BY <1>1, <1>2 DEF PosPolls
    <3> QED BY <1>1, <1>2, <2>5, <3>1 DEF PosPolls, Positions!Task
  <2> QED BY <1>1, <1>2, <1>4, <2>5, <2>6, <2>7, PosStay DEF PosInv, PosTypes
<1>5. CASE memory # <<>> /\ Positions!Send(t, memory[1])
  <2>1. memory[1] \in Int
    BY <1>2, <1>5 DEF PosMemory
  <2>2. Sure => memory[1] = pos
    <3>1. NoneAsked
      BY <1>1, <1>2, AloneUnderLock DEF NoneAsked, Asked, UnderLock
    <3> QED BY <1>5, <3>1 DEF PosInv, PosBeliefs, MemoryTrue
  <2> QED BY <1>1, <1>5, <2>1, <2>2, SendKept
<1> QED BY <1>1, <1>3, <1>4, <1>5

LEMMA MirrorReadsKept == \A t \in Positions!Task : PosInv /\ Positions!MirrorReads(t) => PosInv'
<1> SUFFICES ASSUME NEW t \in Positions!Task, PosInv, Positions!MirrorReads(t) PROVE PosInv'
  OBVIOUS
<1>1. /\ pJob[t].stage = "reading" /\ Positions!Holds(t)
      /\ \/ Positions!Leave(t) /\ Positions!Fault /\ UNCHANGED <<memory, pos, shown, lost>>
         \/ Positions!Send(t, shown)
      /\ UNCHANGED <<pLead, moves, peak, events, pWsok, pLook, pending, net, baseline, paused, lag,
                   settling, saved, flattened, unresolved, commands, restarted, pUp>>
  BY DEF Positions!MirrorReads, Positions!leaderVars, Positions!feedVars
<1>2. PosFeed /\ PosBounds /\ PosFlags /\ PosMemory /\ PosJobs /\ PosLine /\ PosPolls
  BY PosGroups DEF PosInv
<1>3. CASE Positions!Leave(t) /\ Positions!Fault /\ UNCHANGED <<memory, pos, shown, lost>>
  <2>1. PosBounds' /\ (pFaults' = 0 => pFaults = 0)
    BY <1>1, <1>2, <1>3, FaultBounds
  <2>2. PosBeliefs' /\ PosJobs' /\ PosLine' /\ PosPolls'
    BY <1>1, <1>3, <2>1, LeaveKept DEF Asked
  <2> QED BY <1>1, <1>2, <1>3, <2>1, <2>2, PosStay DEF PosInv, PosTypes
<1>4. CASE Positions!Send(t, shown)
  <2>1. shown \in Int
    BY <1>2 DEF PosMemory
  <2>2. Sure => shown = pos
    <3>1. memory = <<>>
      BY <1>1 DEF PosInv, PosBeliefs, ReadsUnknown
    <3> QED BY <3>1 DEF PosInv, PosBeliefs, MemoryKept, ListTrue
  <2> QED BY <1>1, <1>4, <2>1, <2>2, SendKept
<1> QED BY <1>1, <1>3, <1>4

\* What is believed once nobody's order is under way any more
LEMMA BelievedKept ==
    ASSUME PosInv, NoneAsked, UNCHANGED <<pos, shown, lag, lost, peak, restarted, flattened, settling>>,
           pFaults' = 0 => pFaults = 0,
           \A u \in Positions!Task : /\ pJob'[u].stage \notin UnderLock
                                     /\ pJob'[u].result = "failed" => pJob[u].result = "failed",
           pJob'["reconcile"].stage \in {"listed", "checking"} /\ pJob'["reconcile"].result # "taken" =>
               /\ pJob["reconcile"].stage \in {"listed", "checking"}
               /\ pJob'["reconcile"].have = pJob["reconcile"].have
               /\ pJob'["reconcile"].result = pJob["reconcile"].result,
           Sure => memory' \in {<<>>, <<pos>>},
           Sure /\ lag => memory' # <<>>,
           baseline' => flattened \/ restarted
    PROVE  PosBeliefs'
<1>1. Sure' => Sure
  BY DEF Sure
<1>2. NoneAsked'
  BY DEF NoneAsked, Asked, UnderLock
<1>3. PosWithin' /\ ListTrue'
  BY <1>1 DEF PosInv, PosBeliefs, PosWithin, ListTrue, Reached
<1>4. MemoryTrue' /\ MemoryKept'
  BY <1>1 DEF MemoryTrue, MemoryKept
<1>5. AskedTrue' /\ ReadsUnknown'
  BY DEF AskedTrue, ReadsUnknown, Asked, UnderLock
<1>6. LookTrue'
  <2>1. ~\E u \in Positions!Task : pJob[u].stage \in Asked
    BY DEF NoneAsked
  <2> QED BY <1>1, <2>1 DEF PosInv, PosBeliefs, LookTrue
<1>7. NoFailure'
  BY DEF PosInv, PosBeliefs, NoFailure
<1>8. BaselineFlat'
  BY DEF BaselineFlat
<1> QED BY <1>3, <1>4, <1>5, <1>6, <1>7, <1>8 DEF PosBeliefs

\* and when the one order under way is answered.
LEMMA AnsweredKept ==
    ASSUME PosInv, NEW t \in Positions!Task, Positions!Holds(t), pJob[t].stage \in Asked,
           UNCHANGED <<pos, shown, lag, lost, peak, restarted, flattened, pFaults>>,
           \A u \in Positions!Task : /\ u # t => pJob'[u].stage = pJob[u].stage
                                     /\ pJob'[u].result = "failed" => pJob[u].result = "failed",
           pJob'[t].stage \in {"none", "verify"},
           pJob'["reconcile"].stage \in {"listed", "checking"} /\ pJob'["reconcile"].result # "taken" =>
               /\ pJob[t].result # "taken"
               /\ pJob'["reconcile"].have = pJob["reconcile"].have
               /\ pJob'["reconcile"].result = pJob["reconcile"].result,
           Sure => memory' \in {<<>>, <<pos>>},
           Sure /\ lag => memory' # <<>> /\ settling' # "no",
           settling' = "failed" => settling = "failed" \/ pJob[t].result = "failed",
           baseline' => flattened \/ restarted
    PROVE  PosBeliefs'
<1>1. PosFeed /\ PosBounds /\ PosFlags /\ PosMemory /\ PosJobs /\ PosLine /\ PosPolls
  BY PosGroups DEF PosInv
<1>2. Sure' <=> Sure
  BY DEF Sure
<1>3. \A u \in Positions!Task : u # t => pJob[u].stage \notin UnderLock /\ pJob'[u].stage \notin UnderLock
  BY <1>1, AloneUnderLock
<1>4. \A u \in Positions!Task : pJob'[u].stage \notin UnderLock
  BY <1>3 DEF UnderLock
<1>5. PosWithin' /\ ListTrue'
  BY <1>2 DEF PosInv, PosBeliefs, PosWithin, ListTrue, Reached
<1>6. MemoryTrue' /\ MemoryKept'
  BY <1>2 DEF MemoryTrue, MemoryKept
<1>7. AskedTrue' /\ ReadsUnknown'
  BY <1>4 DEF AskedTrue, ReadsUnknown, Asked, UnderLock
<1>8. LookTrue'
  <2> SUFFICES ASSUME Sure', pJob'["reconcile"].stage \in {"listed", "checking"}, pJob'["reconcile"].result # "taken"
               PROVE  pJob'["reconcile"].have = pos
    BY DEF LookTrue
  <2>1. "reconcile" # t /\ "reconcile" \in Positions!Task
    BY DEF Positions!Task
  <2>2. pJob["reconcile"].stage \in {"listed", "checking"}
    BY <2>1
  <2>3. ~\E u \in Positions!Task : pJob[u].stage \in Asked /\ pJob[u].result = "taken"
    BY <1>3 DEF Asked, UnderLock
  <2> QED BY <1>2, <2>2, <2>3 DEF PosInv, PosBeliefs, LookTrue
<1>9. NoFailure'
  BY DEF PosInv, PosBeliefs, NoFailure
<1>10. BaselineFlat'
  BY DEF BaselineFlat
<1> QED BY <1>5, <1>6, <1>7, <1>8, <1>9, <1>10 DEF PosBeliefs

\* An order that went out is noticed by a reconcile that has its list.
LEMMA NoticedJobs ==
    ASSUME PosJobs, PosFeed, UNCHANGED <<peak, pUp, flattened>>, NEW t \in Positions!Task, NEW r,
           pJob' = Positions!Noticed([pJob EXCEPT ![t] = r]), RightJob(t, r), r.stage \notin Asked,
           t = "flatten" /\ r.stage # "none" => flattened
    PROVE  /\ PosJobs'
           /\ \A u \in Positions!Task : u # "reconcile" => pJob'[u] = IF u = t THEN r ELSE pJob[u]
           /\ \A u \in Positions!Task : u # t => pJob'[u].stage = pJob[u].stage
           /\ pJob'[t].stage = r.stage
           /\ pJob'["reconcile"].stage \in {"listed", "checking"} => pJob'["reconcile"].result = "taken"
           /\ \A u \in Positions!Task : pJob'[u].result = "failed" => pJob[u].result = "failed" \/ r.result = "failed"
<1>1. /\ pJob \in [Positions!Task -> PosJob] /\ \A u \in Positions!Task : RightJob(u, pJob[u])
      /\ pJob["flatten"].stage # "none" => flattened
      /\ {"reconcile", "flatten"} \subseteq Positions!Task
  BY RightJobs DEF Positions!Task
<1> DEFINE mid == [pJob EXCEPT ![t] = r]
           old == mid["reconcile"]
           new == [old EXCEPT !.result = IF old.stage \in {"listed", "checking"} THEN "taken" ELSE @]
<1>2. /\ \A u \in Positions!Task : mid[u] = (IF u = t THEN r ELSE pJob[u]) /\ RightJob(u, mid[u])
      /\ mid \in [Positions!Task -> PosJob]
  BY <1>1 DEF RightJob
<1>3. pJob' = [mid EXCEPT !["reconcile"] = new]
  BY DEF Positions!Noticed
<1>4. old \in PosJob /\ RightJob("reconcile", old)
  BY <1>1, <1>2
<1> HIDE DEF mid, old
<1>5. /\ new \in PosJob /\ new.stage = old.stage
      /\ new.result = IF old.stage \in {"listed", "checking"} THEN "taken" ELSE old.result
  BY <1>4 DEF PosJob
<1>6. RightJob("reconcile", new)
  BY <1>4, <1>5 DEF RightJob
<1> HIDE DEF new
<1>7. \A u \in Positions!Task : pJob'[u] = IF u = "reconcile" THEN new ELSE mid[u]
  BY <1>2, <1>3
<1>8. pJob' \in [Positions!Task -> PosJob] /\ \A u \in Positions!Task : RightJob(u, pJob'[u])
  BY <1>2, <1>3, <1>5, <1>6, <1>7
<1>9. PosJob' = PosJob
  BY DEF PosJob, Reached
<1>10. pJob'["flatten"].stage # "none" => flattened
  BY <1>1, <1>2, <1>7
<1>11. PosJobs'
  BY <1>8, <1>9, <1>10 DEF PosJobs, RightJob
<1>12. old = IF t = "reconcile" THEN r ELSE pJob["reconcile"]
  BY <1>1, <1>2 DEF old
<1> QED BY <1>1, <1>2, <1>5, <1>7, <1>11, <1>12

LEMMA MirrorAnsweredKept == \A t \in Positions!Task : PosInv /\ Positions!MirrorAnswered(t) => PosInv'
<1> SUFFICES ASSUME NEW t \in Positions!Task, PosInv, Positions!MirrorAnswered(t) PROVE PosInv'
  OBVIOUS
<1>1. /\ pJob[t].stage = "sent" /\ Positions!Holds(t) /\ lockq' = Tail(lockq)
      /\ \/ /\ pJob[t].result = "taken" /\ memory' = <<pJob[t].want>> /\ settling' = "sent"
            /\ pJob' = Positions!Noticed([pJob EXCEPT ![t] = Positions!Done])
         \/ /\ pJob[t].result # "taken" /\ memory' = <<>> /\ settling' = "failed"
            /\ pJob' = [pJob EXCEPT ![t] = Positions!Done]
      /\ UNCHANGED <<pLead, moves, peak, events, pWsok, pLook, pending, net, baseline, paused, pos, shown, lag, lost,
                   saved, flattened, unresolved, pFaults, commands, restarted, pUp>>
  BY DEF Positions!MirrorAnswered, Positions!Finished, Positions!Unknown, Positions!leaderVars,
     Positions!feedVars, Positions!brokerVars, Positions!boundVars
<1>2. PosFeed /\ PosBounds /\ PosFlags /\ PosMemory /\ PosJobs /\ PosLine /\ PosPolls
  BY PosGroups DEF PosInv
<1>3. PosFlags'
  BY <1>1, <1>2 DEF PosFlags
<1> DEFINE j == Positions!Done
<1>4. RightJob(t, j) /\ j.stage = "none" /\ j.result = "none"
  BY <1>2, DoneJob
<1>5. pJob[t] \in PosJob /\ pJob[t].result # "none"
  BY <1>1, <1>2 DEF PosJobs, Asked
<1> HIDE DEF j
<1>6. baseline => flattened \/ restarted
  BY <1>1 DEF PosInv, PosBeliefs, BaselineFlat
<1>7. CASE pJob[t].result = "taken" /\ memory' = <<pJob[t].want>> /\ settling' = "sent"
           /\ pJob' = Positions!Noticed([pJob EXCEPT ![t] = j])
  <2>1. /\ PosJobs'
        /\ \A u \in Positions!Task : u # "reconcile" => pJob'[u] = IF u = t THEN j ELSE pJob[u]
        /\ \A u \in Positions!Task : u # t => pJob'[u].stage = pJob[u].stage
        /\ pJob'[t].stage = "none"
        /\ pJob'["reconcile"].stage \in {"listed", "checking"} => pJob'["reconcile"].result = "taken"
        /\ \A u \in Positions!Task : pJob'[u].result = "failed" => pJob[u].result = "failed"
    BY <1>1, <1>2, <1>4, <1>7, NoticedJobs DEF Asked
  <2>2. Sure => pos = pJob[t].want
    BY <1>1, <1>7 DEF PosInv, PosBeliefs, AskedTrue, Asked
  <2>3. PosBeliefs'
    BY <1>1, <1>6, <1>7, <2>1, <2>2, AnsweredKept DEF Asked
  <2>4. PosLine'
    BY <1>1, <1>2, <2>1, LineLeaves DEF UnderLock
  <2>5. PosPolls'
    BY <1>1, <1>2, <1>4, <2>1 DEF PosPolls, Positions!Task
  <2>6. PosMemory'
    <3>1. pJob[t].want \in Int
      BY <1>2, <1>5, Sizes DEF PosJob, Reached, PosFeed
    <3> QED BY <1>1, <1>2, <1>7, <3>1 DEF PosMemory
  <2> QED BY <1>1, <1>2, <1>3, <2>1, <2>3, <2>4, <2>5, <2>6, PosStay DEF PosInv, PosTypes
<1>8. CASE pJob[t].result # "taken" /\ memory' = <<>> /\ settling' = "failed"
           /\ pJob' = [pJob EXCEPT ![t] = j]
  <2>1. PosJobs' /\ pJob'[t] = j /\ \A u \in Positions!Task : u # t => pJob'[u] = pJob[u]
    BY <1>1, <1>2, <1>4, <1>8, OneJob
  <2>2. pJob[t].result = "failed"
    BY <1>5, <1>8 DEF PosJob
  <2>3. ~(Sure /\ lag)
    BY <2>2 DEF PosInv, PosBeliefs, NoFailure, Sure
  <2>4. /\ \A u \in Positions!Task : /\ u # t => pJob'[u].stage = pJob[u].stage
                                     /\ pJob'[u].result = "failed" => pJob[u].result = "failed"
        /\ pJob'["reconcile"].stage \in {"listed", "checking"} =>
               /\ pJob'["reconcile"].have = pJob["reconcile"].have
               /\ pJob'["reconcile"].result = pJob["reconcile"].result
        /\ pJob'[t].stage = "none"
    BY <1>4, <2>1 DEF Positions!Task
  <2>5. PosBeliefs'
    BY <1>1, <1>6, <1>8, <2>2, <2>3, <2>4, AnsweredKept DEF Asked
  <2>6. PosLine'
    BY <1>1, <1>2, <2>4, LineLeaves DEF UnderLock
  <2>7. PosPolls'
    BY <1>1, <1>2, <1>4, <2>1 DEF PosPolls, Positions!Task
  <2>8. PosMemory'
    BY <1>1, <1>2, <1>8 DEF PosMemory
  <2> QED BY <1>1, <1>2, <1>3, <2>1, <2>5, <2>6, <2>7, <2>8, PosStay DEF PosInv, PosTypes
<1> QED BY <1>1, <1>7, <1>8 DEF j

LEMMA SettleKept == PosInv /\ Positions!Settle => PosInv'
<1> SUFFICES ASSUME PosInv, Positions!Settle PROVE PosInv'
  OBVIOUS
<1>1. /\ NoneAsked /\ settling' = "no" /\ shown' = pos
      /\ UNCHANGED <<pLead, moves, peak, events, pWsok, pLook, pending, net, baseline, paused, memory, pos, lag, lost,
                   pJob, lockq, saved, flattened, unresolved, pFaults, commands, restarted, pUp>>
  BY DEF Positions!Settle, NoneAsked, Asked, Positions!leaderVars, Positions!feedVars, Positions!boundVars
<1>2. PosFeed /\ PosBounds /\ PosFlags /\ PosMemory /\ PosJobs /\ PosLine /\ PosPolls
  BY PosGroups DEF PosInv
<1>3. PosFlags' /\ PosMemory'
  BY <1>1, <1>2 DEF PosFlags, PosMemory
<1>4. Sure' <=> Sure
  BY <1>1 DEF Sure
<1>5. NoneAsked' /\ Reached' = Reached
  BY <1>1 DEF NoneAsked, Reached
<1>6. PosWithin' /\ ListTrue' /\ MemoryTrue' /\ MemoryKept'
  BY <1>1, <1>4, <1>5 DEF PosInv, PosBeliefs, PosWithin, ListTrue, MemoryTrue, MemoryKept
<1>7. AskedTrue' /\ LookTrue' /\ ReadsUnknown'
  BY <1>1, <1>4 DEF PosInv, PosBeliefs, AskedTrue, LookTrue, ReadsUnknown
<1>8. NoFailure' /\ BaselineFlat'
  BY <1>1 DEF PosInv, PosBeliefs, NoFailure, BaselineFlat
<1> QED
  BY <1>1, <1>2, <1>3, <1>6, <1>7, <1>8, PosStay DEF PosInv, PosTypes, PosBeliefs

LEMMA ReconcileChecksKept == PosInv /\ Positions!ReconcileChecks => PosInv'
<1> SUFFICES ASSUME PosInv, Positions!ReconcileChecks PROVE PosInv'
  OBVIOUS
<1>1. /\ pJob["reconcile"].stage = "checking" /\ Positions!Holds("reconcile")
      /\ \/ Positions!Leave("reconcile") /\ UNCHANGED memory
         \/ /\ pJob["reconcile"].result # "taken" /\ memory' = <<pJob["reconcile"].have>>
            /\ \/ Positions!Leave("reconcile")
               \/ /\ Positions!At("reconcile", "waiting")
                  /\ lockq' = Append(Tail(lockq), "reconcile")
      /\ UNCHANGED <<pLead, moves, peak, events, pWsok, pLook, pending, net, baseline, paused, pos, shown, lag, lost,
                   settling, saved, flattened, unresolved, pFaults, commands, restarted, pUp>>
  BY DEF Positions!ReconcileChecks, Positions!Stale, Positions!leaderVars,
     Positions!feedVars, Positions!brokerVars, Positions!boundVars
<1>2. PosFeed /\ PosBounds /\ PosFlags /\ PosMemory /\ PosJobs /\ PosLine /\ PosPolls
  BY PosGroups DEF PosInv
<1>3. "reconcile" \in Positions!Task
  BY DEF Positions!Task
<1>4. \A u \in Positions!Task : pJob[u].stage \notin UnderLock
  BY <1>1, <1>2, <1>3, AloneUnderLock DEF UnderLock
<1>5. NoneAsked
  BY <1>4 DEF NoneAsked, Asked, UnderLock
<1>6. CASE Positions!Leave("reconcile") /\ UNCHANGED memory
  <2>1. PosBeliefs' /\ PosJobs' /\ PosLine' /\ PosPolls'
    BY <1>1, <1>3, <1>6, LeaveKept DEF Asked
  <2> QED BY <1>1, <1>2, <1>6, <2>1, PosStay DEF PosInv, PosTypes
<1>7. CASE /\ pJob["reconcile"].result # "taken" /\ memory' = <<pJob["reconcile"].have>>
           /\ \/ Positions!Leave("reconcile")
              \/ /\ Positions!At("reconcile", "waiting")
                 /\ lockq' = Append(Tail(lockq), "reconcile")
  <2>1. Sure => pJob["reconcile"].have = pos
    BY <1>1, <1>5, <1>7 DEF PosInv, PosBeliefs, LookTrue, NoneAsked
  <2>2. pJob["reconcile"] \in PosJob /\ RightJob("reconcile", pJob["reconcile"])
    BY <1>2, <1>3, RightJobs
  <2>3. PosMemory'
    <3>1. pJob["reconcile"].have \in Int
      BY <2>2 DEF PosJob
    <3> QED BY <1>1, <1>2, <1>7, <3>1 DEF PosMemory
  <2>4. PICK r : /\ pJob' = [pJob EXCEPT !["reconcile"] = r] /\ RightJob("reconcile", r)
                 /\ r.stage \in {"none", "waiting"} /\ r.result \in {"none", pJob["reconcile"].result}
                 /\ r.stage = "none" => lockq' = Tail(lockq)
                 /\ r.stage = "waiting" => lockq' = Append(Tail(lockq), "reconcile")
    <3>1. CASE Positions!Leave("reconcile")
      <4>1. pJob' = [pJob EXCEPT !["reconcile"] = Positions!Done] /\ lockq' = Tail(lockq)
        BY <3>1 DEF Positions!Leave, Positions!Finished
      <4> QED BY <1>2, <4>1, DoneJob
    <3>2. CASE Positions!At("reconcile", "waiting") /\ lockq' = Append(Tail(lockq), "reconcile")
      <4> DEFINE w == [pJob["reconcile"] EXCEPT !.stage = "waiting"]
      <4>1. pJob' = [pJob EXCEPT !["reconcile"] = w]
        BY <3>2 DEF Positions!At
      <4>2. w \in PosJob /\ w.stage = "waiting" /\ w.result = pJob["reconcile"].result
        BY <2>2 DEF PosJob, Positions!Stage
      <4> HIDE DEF w
      <4>3. RightJob("reconcile", w)
        BY <1>1, <2>2, <4>2 DEF RightJob, Asked
      <4> QED BY <3>2, <4>1, <4>2, <4>3
    <3> QED BY <1>7, <3>1, <3>2
  <2>5. PosJobs' /\ pJob'["reconcile"] = r /\ \A u \in Positions!Task : u # "reconcile" => pJob'[u] = pJob[u]
    BY <1>1, <1>2, <1>3, <2>4, OneJob
  <2>6. /\ pJob'["reconcile"].stage \notin {"listed", "checking"}
        /\ \A u \in Positions!Task : /\ pJob'[u].stage \notin UnderLock
                                     /\ pJob'[u].result = "failed" => pJob[u].result = "failed"
    BY <1>4, <2>4, <2>5 DEF UnderLock
  <2>7. baseline => flattened \/ restarted
    BY <1>1, <1>3 DEF PosInv, PosBeliefs, BaselineFlat
  <2>8. PosBeliefs'
    BY <1>1, <1>5, <1>7, <2>1, <2>6, <2>7, BelievedKept
  <2>9. PosLine'
    <3>1. CASE r.stage = "none"
      BY <1>1, <1>2, <1>3, <2>4, <2>5, <3>1, LineLeaves DEF UnderLock
    <3>2. CASE r.stage = "waiting"
      BY <1>1, <1>2, <1>3, <2>4, <2>5, <3>2, LineRejoins DEF UnderLock, InQueue
    <3> QED BY <2>4, <3>1, <3>2
  <2>10. PosPolls'
    BY <1>1, <1>2, <2>5 DEF PosPolls, Positions!Task
  <2> QED BY <1>1, <1>2, <2>3, <2>5, <2>8, <2>9, <2>10, PosStay DEF PosInv, PosTypes
<1> QED BY <1>1, <1>6, <1>7

-----------------------------------------------------------------------------
(* The flatten *)

LEMMA FlattenLeft ==
    ASSUME PosInv, NEW c \in BOOLEAN, Positions!FlattenLeaves(c), UNCHANGED <<peak, pUp, flattened>>,
           Positions!Holds("flatten"), pJob["flatten"].stage \in {"closing", "closed"}
    PROVE  /\ PosJobs' /\ PosLine' /\ saved' \in Reached /\ baseline' \in BOOLEAN /\ paused' \in BOOLEAN
           /\ pJob'["flatten"].stage \in {"none", "verify"}
           /\ \A u \in Positions!Task : u # "flatten" => pJob'[u].stage = pJob[u].stage
           /\ \A u \in Positions!Task : pJob'[u].result = "failed" => pJob[u].result = "failed"
           /\ IF c THEN pJob'["reconcile"].stage \in {"listed", "checking"} => pJob'["reconcile"].result = "taken"
              ELSE pJob'["reconcile"] = pJob["reconcile"] /\ pJob'["flatten"].stage = "none"
<1>1. PosFeed /\ PosFlags /\ PosJobs /\ PosLine
  BY PosGroups DEF PosInv
<1>2. "flatten" \in Positions!Task /\ "reconcile" \in Positions!Task /\ "reconcile" # "flatten"
  BY DEF Positions!Task
<1>3. lockq' = Tail(lockq) /\ baseline' = (Positions!Net # 0) /\ saved' \in {0, saved}
  BY DEF Positions!FlattenLeaves, Positions!Persist
<1>4. baseline' \in BOOLEAN
  BY <1>3
<1>5. saved' \in Reached
  BY <1>1, <1>3, Sizes DEF PosFeed, Reached
<1>6. flattened /\ pJob["flatten"] \in PosJob /\ RightJob("flatten", pJob["flatten"])
  BY <1>1, <1>2, RightJobs
<1>7. /\ PosJobs' /\ paused' \in BOOLEAN
      /\ pJob'["flatten"].stage \in {"none", "verify"}
      /\ \A u \in Positions!Task : u # "flatten" => pJob'[u].stage = pJob[u].stage
      /\ \A u \in Positions!Task : pJob'[u].result = "failed" => pJob[u].result = "failed"
      /\ IF c THEN pJob'["reconcile"].stage \in {"listed", "checking"} => pJob'["reconcile"].result = "taken"
         ELSE pJob'["reconcile"] = pJob["reconcile"] /\ pJob'["flatten"].stage = "none"
  <2>1. CASE c = TRUE
    <3> DEFINE v == [pJob["flatten"] EXCEPT !.stage = "verify"]
    <3>1. pJob' = Positions!Noticed([pJob EXCEPT !["flatten"] = v]) /\ paused' = paused
      BY <2>1 DEF Positions!FlattenLeaves
    <3>2. v \in PosJob /\ v.stage = "verify" /\ v.result = pJob["flatten"].result
      BY <1>6 DEF PosJob, Positions!Stage
    <3> HIDE DEF v
    <3>3. RightJob("flatten", v) /\ v.stage \notin Asked
      BY <1>6, <3>2 DEF RightJob, Asked
    <3>4. /\ PosJobs'
          /\ \A u \in Positions!Task : u # "flatten" => pJob'[u].stage = pJob[u].stage
          /\ pJob'["flatten"].stage = v.stage
          /\ pJob'["reconcile"].stage \in {"listed", "checking"} => pJob'["reconcile"].result = "taken"
          /\ \A u \in Positions!Task : pJob'[u].result = "failed" => pJob[u].result = "failed" \/ v.result = "failed"
          /\ \A u \in Positions!Task : u # "reconcile" => pJob'[u] = IF u = "flatten" THEN v ELSE pJob[u]
      <4>1. ASSUME NEW f \in Positions!Task, NEW w, pJob' = Positions!Noticed([pJob EXCEPT ![f] = w]),
                   RightJob(f, w), w.stage \notin Asked
            PROVE  /\ PosJobs'
                   /\ \A u \in Positions!Task : u # "reconcile" => pJob'[u] = IF u = f THEN w ELSE pJob[u]
                   /\ \A u \in Positions!Task : u # f => pJob'[u].stage = pJob[u].stage
                   /\ pJob'[f].stage = w.stage
                   /\ pJob'["reconcile"].stage \in {"listed", "checking"} => pJob'["reconcile"].result = "taken"
                   /\ \A u \in Positions!Task : pJob'[u].result = "failed" => pJob[u].result = "failed" \/ w.result = "failed"
        <5>1. PosJobs /\ PosFeed /\ flattened /\ UNCHANGED <<peak, pUp, flattened>>
          BY <1>1, <1>6
        <5> QED BY ONLY <4>1, <5>1, NoticedJobs, ZenonT(60)
      <4>2. pJob' = Positions!Noticed([pJob EXCEPT !["flatten"] = v]) /\ RightJob("flatten", v) /\ v.stage \notin Asked
        BY <3>1, <3>3
      <4> QED BY ONLY <1>2, <4>1, <4>2, ZenonT(60)
    <3>5. \A u \in Positions!Task : pJob'[u].result = "failed" => pJob[u].result = "failed"
      <4>1. CASE pJob["flatten"].result = "failed"
        <5>1. pJob'["reconcile"].result \in {"taken", pJob["reconcile"].result}
          <6> DEFINE mid == [pJob EXCEPT !["flatten"] = v]
          <6>1. mid["reconcile"] = pJob["reconcile"] /\ mid \in [Positions!Task -> PosJob]
            BY <1>1, <1>2, <3>2 DEF PosJobs
          <6> HIDE DEF mid
          <6>2. pJob' = [mid EXCEPT !["reconcile"].result =
                          IF mid["reconcile"].stage \in {"listed", "checking"} THEN "taken" ELSE @]
            BY <3>1 DEF mid, Positions!Noticed
          <6>3. pJob["reconcile"] \in PosJob
            BY <1>1, <1>2 DEF PosJobs
          <6> QED BY <1>2, <6>1, <6>2, <6>3 DEF PosJob
        <5> QED BY <3>2, <3>4, <4>1, <5>1
      <4>2. CASE pJob["flatten"].result # "failed"
        BY <3>2, <3>4, <4>2
      <4> QED BY <4>1, <4>2
    <3>6. paused' \in BOOLEAN
      BY <1>1, <3>1 DEF PosFlags
    <3> QED BY <2>1, <3>2, <3>4, <3>5, <3>6
  <2>2. CASE c = FALSE
    <3>1. pJob' = [pJob EXCEPT !["flatten"] = Positions!Done] /\ paused' = TRUE
      BY <2>2 DEF Positions!FlattenLeaves, Positions!Finished
    <3>2. PosJobs' /\ pJob'["flatten"] = Positions!Done /\ \A u \in Positions!Task : u # "flatten" => pJob'[u] = pJob[u]
      BY <1>1, <1>2, <1>6, <3>1, DoneJob, OneJob
    <3> QED BY <1>1, <1>2, <2>2, <3>1, <3>2, DoneJob
  <2> QED BY <2>1, <2>2
<1>8. PosLine'
  BY <1>1, <1>2, <1>3, <1>7, LineLeaves DEF UnderLock
<1> QED BY <1>4, <1>5, <1>7, <1>8

LEMMA FlattenClosesKept == PosInv /\ Positions!FlattenCloses => PosInv'
<1> SUFFICES ASSUME PosInv, Positions!FlattenCloses PROVE PosInv'
  OBVIOUS
<1>1. /\ pJob["flatten"].stage = "closing" /\ Positions!Holds("flatten")
      /\ UNCHANGED <<pLead, moves, peak, events, pWsok, pLook, pending, net, lag, settling, flattened, restarted,
                     commands, pUp>>
  BY DEF Positions!FlattenCloses, Positions!leaderVars, Positions!feedVars
<1>2. PosFeed /\ PosBounds /\ PosFlags /\ PosMemory /\ PosJobs /\ PosLine /\ PosPolls
  BY PosGroups DEF PosInv
<1>3. "flatten" \in Positions!Task /\ "poll" \in Positions!Task /\ Reached' = Reached
  BY <1>1 DEF Positions!Task, Reached
<1>4. flattened
  BY <1>1, <1>2, RightJobs
<1>5. /\ \A u \in Positions!Task : u # "flatten" => pJob[u].stage \notin UnderLock
      /\ \A u \in Positions!Task : pJob[u].stage \notin UnderLock
  BY <1>1, <1>2, <1>3, AloneUnderLock DEF UnderLock
<1>6. NoneAsked
  BY <1>5 DEF NoneAsked, Asked, UnderLock
<1>7. Sure => ~lag /\ shown = pos /\ memory \in {<<>>, <<pos>>}
  BY <1>4, <1>6 DEF Sure, PosInv, PosBeliefs, ListTrue, MemoryTrue
<1>8. CASE /\ shown # 0
           /\ Positions!PlaceOrder("flatten", -shown, [pJob EXCEPT !["flatten"].stage = "closed"])
           /\ UNCHANGED <<lockq, baseline, saved, paused, memory, unresolved>>
  <2>1. -shown \in Int /\ (Sure => pos + (-shown) = 0)
    BY <1>2, <1>7 DEF PosMemory
  <2>2. /\ PosBeliefs' /\ PosJobs' /\ PosLine' /\ PosBounds'
        /\ pos' \in Int /\ shown' \in Int /\ lost' \in BOOLEAN
        /\ \A u \in Positions!Task : u # "flatten" => pJob'[u] = pJob[u]
    <3> DEFINE delta == -shown
    <3>1. delta \in Int /\ (Sure => pos + delta = 0) /\ Positions!PlaceOrder("flatten", delta, [pJob EXCEPT !["flatten"].stage = "closed"])
      BY <1>8, <2>1
    <3> HIDE DEF delta
    <3>2. pJob["flatten"].stage \in InQueue \ Asked /\ "closed" \in Asked
      BY <1>1 DEF InQueue, Asked
    <3>3. Sure => memory' \in {<<>>, <<pos>>}
      BY <1>7, <1>8
    <3> QED BY <1>1, <1>3, <1>4, <1>8, <3>1, <3>2, <3>3, AskedKept
  <2>3. PosMemory'
    BY <1>2, <1>8, <2>2 DEF PosMemory
  <2>4. PosFlags'
    BY <1>1, <1>2, <1>8, <2>2 DEF PosFlags
  <2>5. PosPolls'
    BY <1>1, <1>2, <1>3, <2>2 DEF PosPolls
  <2> QED BY <1>1, <1>2, <1>8, <2>2, <2>3, <2>4, <2>5, PosStay DEF PosInv, PosTypes
<1>9. CASE /\ memory' \in {<<>>, <<0>>} /\ (memory' = <<0>> => shown = 0) /\ Positions!FlattenLeaves(FALSE)
           /\ pFaults' = pFaults \/ Positions!Fault
           /\ unresolved' = unresolved \/ unresolved' = TRUE
           /\ UNCHANGED <<pos, shown, lost>>
  <2>1. /\ PosJobs' /\ PosLine' /\ saved' \in Reached /\ baseline' \in BOOLEAN /\ paused' \in BOOLEAN
        /\ pJob'["flatten"].stage = "none"
        /\ \A u \in Positions!Task : u # "flatten" => pJob'[u].stage = pJob[u].stage
        /\ \A u \in Positions!Task : pJob'[u].result = "failed" => pJob[u].result = "failed"
        /\ pJob'["reconcile"] = pJob["reconcile"]
    BY <1>1, <1>9, FlattenLeft
  <2>2. PosBounds' /\ (pFaults' = 0 => pFaults = 0)
    BY <1>1, <1>2, <1>9, FaultBounds
  <2>3. \A u \in Positions!Task : pJob'[u].stage \notin UnderLock
    BY <1>3, <1>5, <2>1 DEF UnderLock
  <2>4. Sure => memory' \in {<<>>, <<pos>>}
    BY <1>7, <1>9
  <2>5. PosBeliefs'
    BY <1>1, <1>4, <1>6, <1>7, <1>9, <2>1, <2>2, <2>3, <2>4, BelievedKept
  <2>6. PosMemory'
    BY <1>2, <1>9 DEF PosMemory
  <2>7. unresolved' \in BOOLEAN
    BY <1>2, <1>9 DEF PosFlags
  <2>8. PosFlags'
    BY <1>1, <1>2, <1>9, <2>1, <2>7 DEF PosFlags
  <2>9. PosFeed'
    BY <1>1, <1>2, <1>3, <2>1 DEF PosFeed
  <2>10. PosPolls'
    BY <1>1, <1>2, <1>3, <2>1 DEF PosPolls
  <2> QED BY <2>1, <2>2, <2>5, <2>6, <2>8, <2>9, <2>10 DEF PosInv, PosTypes
<1> QED
  <2>1. \/ /\ shown # 0
           /\ Positions!PlaceOrder("flatten", -shown, [pJob EXCEPT !["flatten"].stage = "closed"])
           /\ UNCHANGED <<lockq, baseline, saved, paused, memory, unresolved>>
        \/ /\ shown = 0 /\ memory' = <<0>> /\ Positions!FlattenLeaves(FALSE)
           /\ UNCHANGED <<pos, shown, lost, unresolved, pFaults>>
        \/ /\ Positions!Fault /\ memory' = <<>> /\ unresolved' = TRUE /\ Positions!FlattenLeaves(FALSE)
           /\ UNCHANGED <<pos, shown, lost>>
    BY DEF Positions!FlattenCloses, Positions!Unknown
  <2>2. CASE /\ shown = 0 /\ memory' = <<0>> /\ Positions!FlattenLeaves(FALSE)
             /\ UNCHANGED <<pos, shown, lost, unresolved, pFaults>>
    <3>1. memory' \in {<<>>, <<0>>} /\ pFaults' = pFaults /\ unresolved' = unresolved
      BY <2>2
    <3> QED BY <1>9, <2>2, <3>1
  <2>3. CASE /\ Positions!Fault /\ memory' = <<>> /\ unresolved' = TRUE /\ Positions!FlattenLeaves(FALSE)
             /\ UNCHANGED <<pos, shown, lost>>
    <3>1. memory' \in {<<>>, <<0>>} /\ memory' # <<0>>
      BY <2>3
    <3> QED BY <1>9, <2>3, <3>1
  <2> QED BY <1>8, <2>1, <2>2, <2>3

LEMMA FlattenAnsweredKept == PosInv /\ Positions!FlattenAnswered => PosInv'
<1> SUFFICES ASSUME PosInv, Positions!FlattenAnswered PROVE PosInv'
  OBVIOUS
<1>1. /\ pJob["flatten"].stage = "closed" /\ Positions!Holds("flatten")
      /\ UNCHANGED <<pLead, moves, peak, events, pWsok, pLook, pending, net, pos, shown, lag, lost, flattened,
                     pFaults, commands, restarted, pUp>>
  BY DEF Positions!FlattenAnswered, Positions!leaderVars, Positions!feedVars, Positions!brokerVars, Positions!boundVars
<1> DEFINE c == (pJob["flatten"].result = "taken")
<1>2. /\ c \in BOOLEAN /\ Positions!FlattenLeaves(c)
      /\ c => memory' = <<0>> /\ settling' = "sent" /\ unresolved' = unresolved
      /\ ~c => memory' = memory /\ settling' = settling /\ unresolved' = TRUE
  <2>1. CASE pJob["flatten"].result = "taken"
    <3>1. c = TRUE
      BY <2>1
    <3>2. Positions!FlattenLeaves(TRUE) /\ memory' = <<0>> /\ settling' = "sent" /\ unresolved' = unresolved
      BY <2>1 DEF Positions!FlattenAnswered
    <3> HIDE DEF c
    <3> QED BY <3>1, <3>2
  <2>2. CASE pJob["flatten"].result # "taken"
    <3>1. c = FALSE
      BY <2>2
    <3>2. Positions!FlattenLeaves(FALSE) /\ memory' = memory /\ settling' = settling /\ unresolved' = TRUE
      BY <2>2 DEF Positions!FlattenAnswered
    <3> HIDE DEF c
    <3> QED BY <3>1, <3>2
  <2> QED BY <2>1, <2>2
<1>3. PosFeed /\ PosBounds /\ PosFlags /\ PosMemory /\ PosJobs /\ PosLine /\ PosPolls
  BY PosGroups DEF PosInv
<1>4. "flatten" \in Positions!Task /\ "poll" \in Positions!Task /\ Reached' = Reached
  BY <1>1 DEF Positions!Task, Reached
<1>5. flattened
  BY <1>1, <1>3, RightJobs
<1>6. /\ PosJobs' /\ PosLine' /\ saved' \in Reached /\ baseline' \in BOOLEAN /\ paused' \in BOOLEAN
      /\ pJob'["flatten"].stage \in {"none", "verify"}
      /\ \A u \in Positions!Task : u # "flatten" => pJob'[u].stage = pJob[u].stage
      /\ \A u \in Positions!Task : pJob'[u].result = "failed" => pJob[u].result = "failed"
      /\ IF c THEN pJob'["reconcile"].stage \in {"listed", "checking"} => pJob'["reconcile"].result = "taken"
         ELSE pJob'["reconcile"] = pJob["reconcile"] /\ pJob'["flatten"].stage = "none"
  <2> HIDE DEF c
  <2> QED BY <1>1, <1>2, FlattenLeft
<1>7. Sure => memory' \in {<<>>, <<pos>>}
  <2>1. Sure => IF c THEN pos = 0 ELSE memory \in {<<>>, <<pos>>}
    BY <1>1, <1>4 DEF PosInv, PosBeliefs, AskedTrue, Asked
  <2> HIDE DEF c
  <2> QED BY <1>2, <2>1
<1>8. ~(Sure /\ lag)
  BY <1>5 DEF Sure
<1>9. settling' = "failed" => settling = "failed"
  BY <1>2
<1>10. PosBeliefs'
  BY <1>1, <1>4, <1>5, <1>6, <1>7, <1>8, <1>9, AnsweredKept DEF Asked
<1>11. PosMemory'
  <2> HIDE DEF c
  <2> QED BY <1>1, <1>2, <1>3 DEF PosMemory
<1>12. unresolved' \in BOOLEAN /\ settling' \in {"no", "sent", "failed"}
  <2> HIDE DEF c
  <2>1. (unresolved' = unresolved \/ unresolved' = TRUE) /\ settling' \in {settling, "sent"}
    BY <1>2
  <2> QED BY <1>3, <2>1 DEF PosFlags
<1>13. PosFlags'
  BY <1>1, <1>3, <1>6, <1>12 DEF PosFlags
<1>14. PosFeed'
  BY <1>1, <1>3, <1>4, <1>6 DEF PosFeed
<1>15. PosPolls'
  BY <1>1, <1>3, <1>4, <1>6 DEF PosPolls
<1> QED
  BY <1>1, <1>3, <1>6, <1>10, <1>11, <1>13, <1>14, <1>15, PosStay DEF PosInv, PosTypes

LEMMA FlattenVerifiesKept == PosInv /\ Positions!FlattenVerifies => PosInv'
<1> SUFFICES ASSUME PosInv, Positions!FlattenVerifies PROVE PosInv'
  OBVIOUS
<1>1. /\ pJob["flatten"].stage = "verify" /\ pJob' = [pJob EXCEPT !["flatten"] = Positions!Done] /\ paused' = TRUE
      /\ pFaults' = pFaults \/ Positions!Fault
      /\ settling' \in {settling, "failed"}
      /\ UNCHANGED <<pLead, moves, peak, events, pWsok, pLook, pending, net, baseline, memory, pos, shown, lag, lost,
                     lockq, saved, flattened, restarted, commands, pUp>>
  BY DEF Positions!FlattenVerifies, Positions!Finished, Positions!leaderVars, Positions!feedVars, Positions!brokerVars
<1>2. PosFeed /\ PosBounds /\ PosFlags /\ PosMemory /\ PosJobs /\ PosLine /\ PosPolls
  BY PosGroups DEF PosInv
<1>3. "flatten" \in Positions!Task /\ "poll" \in Positions!Task /\ "reconcile" # "flatten"
  BY DEF Positions!Task
<1>4. flattened
  BY <1>1, <1>2, RightJobs
<1>5. PosBounds' /\ (pFaults' = 0 => pFaults = 0)
  BY <1>1, <1>2, FaultBounds
<1>6. unresolved' \in BOOLEAN
  <2>1. CASE unresolved' = TRUE
    BY <2>1
  <2>2. CASE unresolved' = (unresolved \/ shown # 0)
    BY <2>2
  <2> QED BY <2>1, <2>2 DEF Positions!FlattenVerifies
<1>7. PosFlags'
  BY <1>1, <1>2, <1>6 DEF PosFlags
<1>8. PosJobs' /\ pJob'["flatten"] = Positions!Done /\ \A u \in Positions!Task : u # "flatten" => pJob'[u] = pJob[u]
  BY <1>1, <1>2, <1>3, <1>4, DoneJob, OneJob
<1>9. \A u \in Positions!Task : QuietJob(u, pJob[u], pJob'[u])
  BY <1>1, <1>2, <1>3, <1>8, DoneJob DEF QuietJob, Asked
<1>10. PosBeliefs'
  <2>1. Reached \subseteq Reached'
    BY <1>1, SameReached
  <2> QED BY <1>1, <1>4, <1>5, <1>9, <2>1, QuietBeliefs DEF PosInv
<1>11. PosLine'
  <2>1. pJob["flatten"].stage \notin InQueue /\ pJob'["flatten"].stage \notin UnderLock
    BY <1>1, <1>2, <1>8, DoneJob DEF InQueue, UnderLock
  <2> QED BY <1>1, <1>2, <1>8, <2>1, LineStays
<1>12. PosPolls'
  BY <1>1, <1>2, <1>3, <1>8 DEF PosPolls
<1> QED
  BY <1>1, <1>2, <1>5, <1>7, <1>8, <1>10, <1>11, <1>12, PosStay DEF PosInv, PosTypes

-----------------------------------------------------------------------------
(* The life of the runner *)

LEMMA PosStopKept == PosInv /\ Positions!Stop => PosInv'
<1> SUFFICES ASSUME PosInv, Positions!Stop PROVE PosInv'
  OBVIOUS
<1>1. /\ Positions!Command /\ restarted' = TRUE /\ pUp' = FALSE
      /\ pJob' = [t \in Positions!Task |-> Positions!Done] /\ lockq' = <<>>
      /\ events' = <<>> /\ pWsok' = FALSE /\ pLook' = <<>> /\ pending' = -1 /\ net' = -1
      /\ baseline' = FALSE /\ paused' = FALSE /\ memory' = <<>> /\ settling' = "no" /\ unresolved' = FALSE
      /\ UNCHANGED <<pLead, moves, peak, pos, shown, lag, lost, saved, flattened, pFaults>>
  BY DEF Positions!Stop, Positions!leaderVars, Positions!brokerVars, Positions!Nothing, Positions!Unknown
<1>2. PosFeed /\ PosBounds /\ PosFlags /\ PosMemory /\ PosJobs /\ PosLine /\ PosPolls
  BY PosGroups DEF PosInv
<1>3. Reached' = Reached /\ PosJob' = PosJob
  BY <1>1 DEF Reached, PosJob
<1>4. \A t \in Positions!Task : pJob'[t] = Positions!Done
  BY <1>1
<1>5. "flatten" \in Positions!Task /\ "reconcile" \in Positions!Task
  BY DEF Positions!Task
<1>6. PosFeed'
  <2>1. events' \in Seq(Reached) /\ Len(events') <= moves
    BY <1>1, <1>2 DEF PosBounds
  <2> QED BY <1>1, <1>2, <1>3, <2>1 DEF PosFeed
<1>7. PosBounds' /\ PosFlags' /\ PosMemory'
  <2>1. PosBounds'
    BY <1>1, <1>2, FaultBounds
  <2>2. PosFlags'
    BY <1>1, <1>2 DEF PosFlags
  <2> QED BY <1>1, <1>2, <2>1, <2>2 DEF PosMemory
<1>8. PosJobs'
  <2>1. pJob' \in [Positions!Task -> PosJob]
    BY <1>1, <1>2, DoneJob
  <2> QED BY <1>2, <1>3, <1>4, <1>5, <2>1, DoneJob DEF PosJobs, Asked
<1>9. PosLine' /\ PosPolls'
  BY <1>1, <1>2, <1>4, DoneJob DEF PosLine, PosPolls, UnderLock
<1>10. Sure' => ~lag /\ Sure
  BY <1>1, <1>2 DEF Sure, PosFlags
<1>11. PosWithin' /\ ListTrue' /\ MemoryTrue' /\ MemoryKept'
  BY <1>1, <1>3, <1>10 DEF PosInv, PosBeliefs, PosWithin, ListTrue, MemoryTrue, MemoryKept
<1>12. AskedTrue' /\ LookTrue' /\ ReadsUnknown' /\ BaselineFlat'
  BY <1>1, <1>2, <1>4, <1>5, DoneJob DEF AskedTrue, LookTrue, ReadsUnknown, BaselineFlat, Asked
<1>13. NoFailure'
  BY <1>1, <1>2, <1>4, DoneJob DEF PosInv, PosBeliefs, NoFailure
<1> QED
  BY <1>6, <1>7, <1>8, <1>9, <1>11, <1>12, <1>13 DEF PosInv, PosTypes, PosBeliefs

LEMMA PosStartKept == PosInv /\ Positions!Start => PosInv'
<1> SUFFICES ASSUME PosInv, Positions!Start PROVE PosInv'
  OBVIOUS
<1> DEFINE r == [Positions!Done EXCEPT !.stage = IF pLead = saved THEN "none" ELSE "named", !.want = pLead]
<1>1. /\ ~pUp /\ pUp' = TRUE
      /\ memory' \in {IF shown = 0 THEN <<>> ELSE <<shown>>, <<>>}
      /\ \/ net' = saved /\ pJob' = [pJob EXCEPT !["poll"] = r] /\ baseline' = baseline
         \/ net' \in {-1, pLead} /\ pJob' = pJob /\ baseline' = (pLead # 0)
      /\ UNCHANGED <<pLead, moves, peak, events, pWsok, pLook, pending, paused, pos, shown, lag, lost,
                     settling, lockq, saved, flattened, unresolved, pFaults, commands, restarted>>
  BY DEF Positions!Start, Positions!leaderVars, Positions!feedVars, Positions!brokerVars, Positions!boundVars,
     Positions!Nothing, Positions!Unknown
<1>2. PosFeed /\ PosBounds /\ PosFlags /\ PosMemory /\ PosJobs /\ PosLine /\ PosPolls
  BY PosGroups DEF PosInv
<1>3. Reached' = Reached /\ PosJob' = PosJob
  BY <1>1 DEF Reached, PosJob
<1>4. "flatten" \in Positions!Task /\ "reconcile" \in Positions!Task /\ "poll" \in Positions!Task
  BY DEF Positions!Task
<1>5. restarted /\ \A t \in Positions!Task : pJob[t].stage = "none" /\ pJob[t] \in PosJob
  BY <1>1, <1>2 DEF PosFlags, PosJobs
<1>6. r \in PosJob /\ r.stage \in {"none", "named"} /\ r.result = "none"
  BY <1>2, DoneJob DEF PosJob, Positions!Stage, PosFeed
<1>7. /\ pJob' \in [Positions!Task -> PosJob]
      /\ \A t \in Positions!Task : /\ pJob'[t].stage \in {"none", "named"}
                                   /\ pJob'[t].result \in {"none", pJob[t].result}
                                   /\ t # "poll" => pJob'[t] = pJob[t]
  <2> HIDE DEF r
  <2>1. pJob \in [Positions!Task -> PosJob]
    BY <1>2 DEF PosJobs
  <2> QED BY <1>1, <1>4, <1>5, <1>6, <2>1
<1>8. PosFeed'
  <2>1. net' \in Reached \cup {-1}
    BY <1>1, <1>2 DEF PosFeed
  <2> QED BY <1>1, <1>2, <1>3, <2>1 DEF PosFeed
<1>9. baseline' \in BOOLEAN
  <2>1. CASE baseline' = baseline
    BY <1>2, <2>1 DEF PosFlags
  <2>2. CASE baseline' = (pLead # 0)
    BY <2>2
  <2> QED BY <1>1, <2>1, <2>2
<1>10. PosFlags'
  BY <1>1, <1>2, <1>9 DEF PosFlags
<1>11. PosMemory'
  BY <1>1, <1>2 DEF PosMemory
<1>12. PosJobs'
  BY <1>1, <1>3, <1>4, <1>5, <1>7 DEF PosJobs, Asked
<1>13. PosLine'
  BY <1>1, <1>2, <1>5, <1>7, LineStays DEF InQueue, UnderLock
<1>14. PosPolls'
  BY <1>1, <1>2 DEF PosPolls
<1>15. /\ Sure' <=> Sure
       /\ NoneAsked /\ NoneAsked'
       /\ Sure => ~lag /\ shown = pos
  <2>1. Sure' <=> Sure
    BY <1>1 DEF Sure
  <2>2. NoneAsked /\ NoneAsked'
    BY <1>5, <1>7 DEF NoneAsked, Asked
  <2> QED BY <1>5, <2>1, <2>2 DEF Sure, PosInv, PosBeliefs, ListTrue
<1>16. PosWithin' /\ ListTrue' /\ MemoryTrue' /\ MemoryKept'
  BY <1>1, <1>3, <1>15 DEF PosInv, PosBeliefs, PosWithin, ListTrue, MemoryTrue, MemoryKept
<1>17. AskedTrue' /\ LookTrue' /\ ReadsUnknown' /\ BaselineFlat'
  BY <1>1, <1>4, <1>5, <1>7 DEF AskedTrue, LookTrue, ReadsUnknown, BaselineFlat, Asked
<1>18. NoFailure'
  BY <1>1, <1>7 DEF PosInv, PosBeliefs, NoFailure
<1> QED
  BY <1>1, <1>2, <1>8, <1>10, <1>11, <1>12, <1>13, <1>14, <1>16, <1>17, <1>18, PosStay DEF PosInv, PosTypes, PosBeliefs

-----------------------------------------------------------------------------
LEMMA PosInit == Positions!Init => PosInv
BY PosTypesInit, PosBeliefsInit DEF PosInv

LEMMA PosKept == PosInv /\ [Positions!Next]_(Positions!vars) => PosInv'
<1> SUFFICES ASSUME PosInv, [Positions!Next]_(Positions!vars) PROVE PosInv'
  OBVIOUS
<1>1. CASE UNCHANGED Positions!vars
  <2>1. UNCHANGED <<pLead, moves, peak, events, pWsok, pLook, pending, net, baseline, paused, memory, pos, shown,
                    lag, lost, settling, pJob, lockq, saved, flattened, unresolved, pFaults, commands, restarted, pUp>>
    BY <1>1 DEF Positions!vars, Positions!leaderVars, Positions!feedVars, Positions!brokerVars, Positions!boundVars
  <2>2. PosBeliefs'
    BY <2>1, SameReached, SameJobs
  <2> QED BY <2>1, <2>2, PosGroups, PosStay DEF PosInv, PosTypes
<1>2. CASE Positions!Mirror
  BY <1>2, OnPositionKept, MirrorBeginsKept, MirrorReadsKept, MirrorAnsweredKept DEF Positions!Mirror
<1>3. CASE Positions!Reconcile
  BY <1>3, ReconcileReadsKept, ReconcileListedKept, ReconcileChecksKept DEF Positions!Reconcile
<1>4. CASE Positions!Flattening
  BY <1>4, FlattenClosesKept, FlattenAnsweredKept, FlattenVerifiesKept DEF Positions!Flattening
<1>5. CASE Positions!Poll
  BY <1>5, PollReadsKept, PollWorksKept DEF Positions!Poll
<1>6. CASE \/ Positions!OnWsMessage \/ Positions!Settle \/ Positions!Start
           \/ Positions!LeaderMoves \/ Positions!SocketDrops \/ Positions!SocketSyncs
           \/ Positions!SyncNow \/ Positions!Resume \/ Positions!Flatten \/ Positions!Stop
  BY <1>6, OnWsMessageKept, SettleKept, PosStartKept, LeaderMovesKept, SocketDropsKept, SocketSyncsKept,
     SyncNowKept, ResumeKept, FlattenKept, PosStopKept
<1> QED BY <1>1, <1>2, <1>3, <1>4, <1>5, <1>6 DEF Positions!Next

LEMMA PosGiven == PosInv => Positions!TypeOK /\ Positions!WithinLeader /\ Positions!BaselineNotHeld
<1>1. PosInv => Positions!TypeOK
  BY PosTypesGiven DEF PosInv
<1>2. PosInv => Positions!WithinLeader /\ Positions!BaselineNotHeld
  BY DEF PosInv, PosBeliefs, PosWithin, BaselineFlat, Sure, Reached, Positions!WithinLeader, Positions!BaselineNotHeld
<1> QED BY <1>1, <1>2
-----------------------------------------------------------------------------
(* The runners of the copy groups: who holds the workspace's lock is the *)
(* one who stops runners, and a group whose runner stops has none in the *)
(* table. A version is the number of edits there were, at most.          *)

Lists(n) == [Group -> [on : BOOLEAN, ver : 0 .. n]]
Tables == [Group -> Manager!Runner \cup {Manager!Nobody}]
Syncing == {"stops", "lets", "seeds"}
SyncJob(n) ==
    [pc : {"idle", "cancels", "releases", "waits"} \cup Syncing, list : Lists(n),
     todo : SUBSET Group, g : Group, r : Manager!Runner \cup {Manager!Nobody}]

GroupTypes ==
    /\ gList \in Lists(gEdits) /\ gSubs \in [Group -> BOOLEAN] /\ gTable \in Tables
    /\ gTwin \in [Group -> BOOLEAN] /\ gLoose \in [Group -> BOOLEAN]
    /\ gLock \in Manager!Caller \cup {Manager!NoOne}
    /\ gEdits \in 0 .. MaxEdits /\ gFaults \in 0 .. ManagerFaults

SyncTypes == gJob \in [Manager!Caller -> SyncJob(gEdits)]

LockHeld == \A c \in Manager!Caller : gJob[c].pc \in Syncing <=> gLock = c

StopsAlone == \A c \in Manager!Caller : gJob[c].pc = "stops" => gTable[gJob[c].g] = Manager!Nobody

ManagerInv == GroupTypes /\ SyncTypes /\ LockHeld /\ StopsAlone

LEMMA GroupSizes ==
    /\ Group # {} /\ Manager!NoOne \notin Manager!Caller
    /\ MaxEdits \in Nat /\ ManagerFaults \in Nat
BY TradingAssumption DEF Manager!CopyManagerAssumption

LEMMA ListsGrow ==
    ASSUME NEW n \in Nat PROVE Lists(n) \subseteq Lists(n + 1)
BY DEF Lists

LEMMA SyncGrows ==
    ASSUME NEW n \in Nat PROVE SyncJob(n) \subseteq SyncJob(n + 1)
BY ListsGrow DEF SyncJob

LEMMA IdleSync ==
    ASSUME NEW n \in Nat
    PROVE  /\ Manager!Idle \in SyncJob(n) /\ Manager!Idle.pc = "idle"
           /\ DOMAIN Manager!Idle = {"pc", "list", "todo", "g", "r"}
<1>1. (CHOOSE g \in Group : TRUE) \in Group
  BY GroupSizes
<1>2. [g \in Group |-> [on |-> FALSE, ver |-> 0]] \in Lists(n)
  BY DEF Lists
<1> QED BY <1>1, <1>2 DEF SyncJob, Manager!Idle

\* Going on with a sync, the caller holds the lock or lets go of it, and a runner that
\* stops is out of the table.
LEMMA TurnKeeps ==
    ASSUME GroupTypes, SyncTypes, NEW c \in Manager!Caller,
           NEW l \in Lists(gEdits), NEW todo \in SUBSET Group,
           Manager!Turn(c, l, gTable, todo),
           \A d \in Manager!Caller \ {c} : gJob[d].pc \notin Syncing
    PROVE  /\ gTable' \in Tables /\ gLock' \in Manager!Caller \cup {Manager!NoOne}
           /\ gJob' \in [Manager!Caller -> SyncJob(gEdits)]
           /\ \A d \in Manager!Caller : gJob'[d].pc \in Syncing <=> gLock' = d
           /\ \A d \in Manager!Caller : gJob'[d].pc = "stops" => gTable'[gJob'[d].g] = Manager!Nobody
<1> DEFINE Result ==
       /\ gTable' \in Tables /\ gLock' \in Manager!Caller \cup {Manager!NoOne}
       /\ gJob' \in [Manager!Caller -> SyncJob(gEdits)]
       /\ \A d \in Manager!Caller : gJob'[d].pc \in Syncing <=> gLock' = d
       /\ \A d \in Manager!Caller : gJob'[d].pc = "stops" => gTable'[gJob'[d].g] = Manager!Nobody
<1>n. gEdits \in Nat /\ gTable \in Tables /\ gJob \in [Manager!Caller -> SyncJob(gEdits)]
      /\ gSubs \in [Group -> BOOLEAN] /\ gEdits <= MaxEdits
  BY GroupSizes DEF GroupTypes, SyncTypes
<1>1. CASE Manager!StartMissing(c, l, gTable)
  <2>1. gTable' = [g \in Group |-> IF l[g].on /\ gTable[g] = Manager!Nobody
            THEN [ver |-> l[g].ver, ext |-> gSubs[g], placing |-> FALSE] ELSE gTable[g]]
        /\ gJob' = [gJob EXCEPT ![c] = Manager!Idle] /\ gLock' = Manager!NoOne
    BY <1>1 DEF Manager!StartMissing
  <2>2. \A g \in Group : [ver |-> l[g].ver, ext |-> gSubs[g], placing |-> FALSE] \in Manager!Runner
    BY <1>n, GroupSizes DEF Lists, Manager!Runner
  <2>3. gTable' \in Tables
    BY <1>n, <2>1, <2>2 DEF Tables
  <2>4. gJob' \in [Manager!Caller -> SyncJob(gEdits)] /\ \A d \in Manager!Caller : gJob'[d].pc \notin Syncing
    BY <1>n, <2>1, IdleSync DEF Syncing
  <2> QED BY <2>1, <2>3, <2>4, GroupSizes DEF Syncing
<1>2. ASSUME NEW g \in {h \in todo : Manager!Needs(l, gTable, h)}, NEW rest \in SUBSET todo,
             NEW pc \in Syncing, NEW r \in Manager!Runner \cup {Manager!Nobody}, NEW t \in Tables,
             gLock' = c, gTable' = t, pc = "stops" => t[g] = Manager!Nobody,
             gJob' = [gJob EXCEPT ![c] = [pc |-> pc, list |-> l, todo |-> rest, g |-> g, r |-> r]]
      PROVE  Result
  <2> DEFINE j == [pc |-> pc, list |-> l, todo |-> rest, g |-> g, r |-> r]
  <2>1. j \in SyncJob(gEdits)
    BY DEF SyncJob
  <2>2. j.pc = pc /\ j.g = g
    OBVIOUS
  <2> HIDE DEF j
  <2>3. gJob' = [gJob EXCEPT ![c] = j]
    BY <1>2 DEF j
  <2>4. gJob' \in [Manager!Caller -> SyncJob(gEdits)] /\ gJob'[c] = j
        /\ \A d \in Manager!Caller \ {c} : gJob'[d] = gJob[d]
    BY <1>n, <2>1, <2>3
  <2>5. \A d \in Manager!Caller : gJob'[d].pc \in Syncing <=> gLock' = d
    BY <1>2, <2>2, <2>4
  <2>6. \A d \in Manager!Caller : gJob'[d].pc = "stops" => gTable'[gJob'[d].g] = Manager!Nobody
    BY <1>2, <2>2, <2>4 DEF Syncing
  <2> QED BY <1>2, <2>4, <2>5, <2>6
<1>3. ASSUME ~Manager!StartMissing(c, l, gTable) PROVE Result
  <2>1. PICK g \in {h \in todo : Manager!Needs(l, gTable, h)}, rest \in SUBSET todo :
          /\ gLock' = c
          /\ \/ /\ gTable' = [gTable EXCEPT ![g] = Manager!Nobody]
                /\ gJob' = [gJob EXCEPT ![c] = [pc |-> "stops", list |-> l, todo |-> rest, g |-> g, r |-> gTable[g]]]
             \/ /\ gJob' = [gJob EXCEPT ![c] = [pc |-> "lets", list |-> l, todo |-> rest, g |-> g, r |-> Manager!Nobody]]
                /\ gTable' = gTable
             \/ /\ gTable' = [gTable EXCEPT ![g].ext = TRUE]
                /\ gJob' = [gJob EXCEPT ![c] = [pc |-> "seeds", list |-> l, todo |-> rest, g |-> g, r |-> Manager!Nobody]]
    BY <1>3 DEF Manager!Turn
  <2>2. g \in Group /\ gTable[g] \in Manager!Runner
    BY <1>n DEF Manager!Needs, Tables
  <2>3. [gTable EXCEPT ![g] = Manager!Nobody] \in Tables
        /\ [gTable EXCEPT ![g] = Manager!Nobody][g] = Manager!Nobody
    BY <1>n, <2>2 DEF Tables
  <2>4. [gTable[g] EXCEPT !.ext = TRUE] \in Manager!Runner
    BY <2>2 DEF Manager!Runner
  <2>5. [gTable EXCEPT ![g].ext = TRUE] \in Tables
    BY <1>n, <2>2, <2>4 DEF Tables
  <2>6. "stops" \in Syncing /\ "lets" \in Syncing /\ "seeds" \in Syncing /\ "lets" # "stops" /\ "seeds" # "stops"
    BY DEF Syncing
  <2>7. Manager!Nobody \in Manager!Runner \cup {Manager!Nobody}
    OBVIOUS
  <2>8. CASE gTable' = [gTable EXCEPT ![g] = Manager!Nobody] /\ gJob' = [gJob EXCEPT ![c] =
              [pc |-> "stops", list |-> l, todo |-> rest, g |-> g, r |-> gTable[g]]]
    BY ONLY <1>2, <2>1, <2>2, <2>3, <2>6, <2>8
  <2>9. CASE gTable' = gTable /\ gJob' = [gJob EXCEPT ![c] =
              [pc |-> "lets", list |-> l, todo |-> rest, g |-> g, r |-> Manager!Nobody]]
    BY ONLY <1>n, <1>2, <2>1, <2>6, <2>7, <2>9
  <2>10. CASE gTable' = [gTable EXCEPT ![g].ext = TRUE] /\ gJob' = [gJob EXCEPT ![c] =
              [pc |-> "seeds", list |-> l, todo |-> rest, g |-> g, r |-> Manager!Nobody]]
    BY ONLY <1>2, <2>1, <2>5, <2>6, <2>7, <2>10
  <2> QED BY ONLY <2>1, <2>8, <2>9, <2>10
<1> QED BY <1>1, <1>3

\* A job of a caller that does not sync, before and after, changes nothing of the lock.
LEMMA JobKept ==
    ASSUME GroupTypes, SyncTypes, LockHeld, StopsAlone, NEW c \in Manager!Caller,
           NEW n \in {gEdits, gEdits + 1}, NEW j \in SyncJob(n),
           j.pc \notin Syncing, gLock # c,
           gJob' = [gJob EXCEPT ![c] = j], gLock' = gLock, gTable' = gTable, gEdits' = n
    PROVE  SyncTypes' /\ LockHeld' /\ StopsAlone'
<1>1. gJob \in [Manager!Caller -> SyncJob(n)]
  BY SyncGrows, GroupSizes DEF SyncTypes, GroupTypes
<1>2. gJob' \in [Manager!Caller -> SyncJob(n)] /\ gJob'[c] = j
      /\ \A d \in Manager!Caller \ {c} : gJob'[d] = gJob[d]
  BY <1>1
<1>3. j.pc # "stops"
  BY DEF Syncing
<1> QED BY <1>2, <1>3 DEF SyncTypes, LockHeld, StopsAlone

LEMMA OfSyncJob ==
    ASSUME NEW n \in Nat, NEW j \in SyncJob(n)
    PROVE  /\ j.list \in Lists(n) /\ j.todo \in SUBSET Group /\ j.g \in Group
           /\ j.r \in Manager!Runner \cup {Manager!Nobody}
BY DEF SyncJob

LEMMA SyncAt ==
    ASSUME NEW n \in Nat, NEW j \in SyncJob(n),
           NEW pc \in {"idle", "cancels", "releases", "waits"} \cup Syncing
    PROVE  /\ [j EXCEPT !.pc = pc] \in SyncJob(n) /\ [j EXCEPT !.pc = pc].pc = pc
           /\ [j EXCEPT !.pc = pc].g = j.g
BY DEF SyncJob

LEMMA IdleAt ==
    ASSUME NEW n \in Nat, NEW pc \in {"idle", "cancels", "releases", "waits"}
    PROVE  [Manager!Idle EXCEPT !.pc = pc] \in SyncJob(n) /\ [Manager!Idle EXCEPT !.pc = pc].pc = pc
<1> DEFINE i == Manager!Idle
<1>1. i \in SyncJob(n)
  BY IdleSync
<1> HIDE DEF i
<1>2. [i EXCEPT !.pc = pc] \in SyncJob(n) /\ [i EXCEPT !.pc = pc].pc = pc
  BY <1>1 DEF SyncJob
<1> QED BY <1>2 DEF i

LEMMA IdleOf ==
    ASSUME NEW n \in Nat, NEW pc \in {"idle", "cancels", "releases", "waits"}, NEW h \in Group
    PROVE  /\ [Manager!Idle EXCEPT !.pc = pc, !.g = h] \in SyncJob(n)
           /\ [Manager!Idle EXCEPT !.pc = pc, !.g = h].pc = pc
<1> DEFINE i == Manager!Idle
<1>1. i \in SyncJob(n)
  BY IdleSync
<1> HIDE DEF i
<1>2. [i EXCEPT !.pc = pc, !.g = h] \in SyncJob(n) /\ [i EXCEPT !.pc = pc, !.g = h].pc = pc
  BY <1>1 DEF SyncJob
<1> QED BY <1>2 DEF i

LEMMA IdleWith ==
    ASSUME NEW n \in Nat, NEW h \in Group, NEW l \in Lists(n)
    PROVE  /\ [Manager!Idle EXCEPT !.pc = "cancels", !.list = l, !.g = h] \in SyncJob(n)
           /\ [Manager!Idle EXCEPT !.pc = "cancels", !.list = l, !.g = h].pc = "cancels"
<1> DEFINE i == Manager!Idle
<1>1. i \in SyncJob(n)
  BY IdleSync
<1> HIDE DEF i
<1>2. [i EXCEPT !.pc = "cancels", !.list = l, !.g = h] \in SyncJob(n)
      /\ [i EXCEPT !.pc = "cancels", !.list = l, !.g = h].pc = "cancels"
  BY <1>1 DEF SyncJob
<1> QED BY <1>2 DEF i

LEMMA ManagerInvInit == Manager!Init => ManagerInv
<1> SUFFICES ASSUME Manager!Init PROVE ManagerInv
  OBVIOUS
<1>1. GroupTypes
  <2>1. gList \in Lists(gEdits)
    BY DEF Manager!Init, Lists
  <2> QED BY <2>1, GroupSizes DEF Manager!Init, GroupTypes, Tables
<1>2. gJob = [c \in Manager!Caller |-> Manager!Idle] /\ gEdits = 0 /\ gLock = Manager!NoOne
  BY DEF Manager!Init
<1>3. SyncTypes
  BY <1>2, IdleSync DEF SyncTypes
<1>4. LockHeld /\ StopsAlone
  BY <1>2, IdleSync, GroupSizes DEF LockHeld, StopsAlone, Syncing
<1> QED BY <1>1, <1>3, <1>4 DEF ManagerInv

LEMMA FaultsCounted ==
    ASSUME GroupTypes, Manager!Fault \/ gFaults' = gFaults PROVE gFaults' \in 0 .. ManagerFaults
BY GroupSizes DEF GroupTypes, Manager!Fault

LEMMA AcquireKept == ASSUME ManagerInv, NEW c \in Manager!Caller, Manager!Acquire(c) PROVE ManagerInv'
<1>0. GroupTypes /\ SyncTypes /\ LockHeld /\ StopsAlone /\ gEdits \in Nat
  BY GroupSizes DEF ManagerInv, GroupTypes
<1>1. gJob[c].pc = "waits" /\ gLock = Manager!NoOne
      /\ UNCHANGED <<gList, gSubs, gTwin, gLoose, gEdits>>
  BY DEF Manager!Acquire
<1>2. \A d \in Manager!Caller : gJob[d].pc \notin Syncing
  BY <1>0, <1>1, GroupSizes DEF LockHeld
<1>3. CASE Manager!Turn(c, gList, gTable, Group) /\ UNCHANGED gFaults
  <2>1. gList \in Lists(gEdits) /\ Group \in SUBSET Group
    BY <1>0 DEF GroupTypes
  <2> DEFINE all == Group
  <2>2. /\ gTable' \in Tables /\ gLock' \in Manager!Caller \cup {Manager!NoOne}
        /\ gJob' \in [Manager!Caller -> SyncJob(gEdits)]
        /\ \A d \in Manager!Caller : gJob'[d].pc \in Syncing <=> gLock' = d
        /\ \A d \in Manager!Caller : gJob'[d].pc = "stops" => gTable'[gJob'[d].g] = Manager!Nobody
    BY <1>0, <1>2, <1>3, <2>1, TurnKeeps
  <2> QED BY <1>0, <1>1, <1>3, <2>2 DEF ManagerInv, GroupTypes, SyncTypes, LockHeld, StopsAlone
<1>4. CASE Manager!Fault /\ gJob' = [gJob EXCEPT ![c] = Manager!Idle] /\ UNCHANGED <<gTable, gLock>>
  <2>1. SyncTypes' /\ LockHeld' /\ StopsAlone'
    <3>1. Manager!Idle \in SyncJob(gEdits) /\ Manager!Idle.pc \notin Syncing /\ gLock # c
      BY <1>0, <1>1, IdleSync, GroupSizes DEF Syncing
    <3>2. gEdits' = gEdits /\ gLock' = gLock /\ gTable' = gTable
      BY <1>1, <1>4
    <3> QED BY <1>0, <1>4, <3>1, <3>2, JobKept
  <2>2. GroupTypes'
    BY <1>0, <1>1, <1>4, FaultsCounted DEF GroupTypes
  <2> QED BY <2>1, <2>2 DEF ManagerInv
<1> QED BY <1>3, <1>4 DEF Manager!Acquire

\* The turn after a stop or a seeding.
LEMMA TurnsKept ==
    ASSUME ManagerInv, NEW c \in Manager!Caller, gJob[c].pc \in Syncing,
           Manager!Turn(c, gJob[c].list, gTable, gJob[c].todo),
           UNCHANGED <<gList, gSubs, gTwin, gLoose, gEdits, gFaults>>
    PROVE  ManagerInv'
<1>0. GroupTypes /\ SyncTypes /\ LockHeld /\ StopsAlone /\ gEdits \in Nat
  BY GroupSizes DEF ManagerInv, GroupTypes
<1>1. \A d \in Manager!Caller \ {c} : gJob[d].pc \notin Syncing
  BY <1>0 DEF LockHeld
<1>2. gJob[c].list \in Lists(gEdits) /\ gJob[c].todo \in SUBSET Group
  BY <1>0, OfSyncJob DEF SyncTypes
<1>3. /\ gTable' \in Tables /\ gLock' \in Manager!Caller \cup {Manager!NoOne}
      /\ gJob' \in [Manager!Caller -> SyncJob(gEdits)]
      /\ \A d \in Manager!Caller : gJob'[d].pc \in Syncing <=> gLock' = d
      /\ \A d \in Manager!Caller : gJob'[d].pc = "stops" => gTable'[gJob'[d].g] = Manager!Nobody
  BY <1>0, <1>1, <1>2, TurnKeeps
<1> QED BY <1>0, <1>3 DEF ManagerInv, GroupTypes, SyncTypes, LockHeld, StopsAlone

LEMMA CancelledInStopKept ==
    ASSUME ManagerInv, NEW c \in Manager!Caller, Manager!CancelledInStop(c) PROVE ManagerInv'
<1>0. GroupTypes /\ SyncTypes /\ LockHeld /\ StopsAlone /\ gEdits \in Nat
  BY GroupSizes DEF ManagerInv, GroupTypes
<1>1. /\ gJob[c].pc = "stops" /\ Manager!Fault
      /\ gLoose' = [gLoose EXCEPT ![gJob[c].g] = TRUE]
      /\ gJob' = [gJob EXCEPT ![c] = Manager!Idle] /\ gLock' = Manager!NoOne
      /\ UNCHANGED <<gList, gSubs, gTable, gTwin, gEdits>>
  BY DEF Manager!CancelledInStop
<1>2. GroupTypes'
  BY <1>0, <1>1, FaultsCounted DEF GroupTypes
<1>3. gJob' \in [Manager!Caller -> SyncJob(gEdits)] /\ \A d \in Manager!Caller : gJob'[d].pc \notin Syncing
  <2>1. \A d \in Manager!Caller \ {c} : gJob[d].pc \notin Syncing
    BY <1>0, <1>1 DEF LockHeld, Syncing
  <2> QED BY <1>0, <1>1, <2>1, IdleSync DEF SyncTypes, Syncing
<1> QED BY <1>1, <1>2, <1>3, GroupSizes DEF ManagerInv, SyncTypes, LockHeld, StopsAlone, Syncing

LEMMA NotExternal ==
    ASSUME NEW r \in Manager!Runner \cup {Manager!Nobody}
    PROVE  /\ [r EXCEPT !.ext = FALSE] \in Manager!Runner \cup {Manager!Nobody}
           /\ [r EXCEPT !.placing = FALSE] \in Manager!Runner \cup {Manager!Nobody}
<1>1. CASE r \in Manager!Runner
  BY <1>1 DEF Manager!Runner
<1>2. CASE r = Manager!Nobody
  <2>1. r = [x \in DOMAIN r |-> r[x]]
    BY <1>2, Zenon DEF Manager!Nobody
  <2>2. r.ext = FALSE /\ r.placing = FALSE
    BY <1>2, Zenon DEF Manager!Nobody
  <2>3. \A b : /\ r.ext = b => [r EXCEPT !.ext = b] = r
               /\ r.placing = b => [r EXCEPT !.placing = b] = r
    BY <2>1
  <2>4. [r EXCEPT !.ext = FALSE] = r /\ [r EXCEPT !.placing = FALSE] = r
    BY <2>2, <2>3, Zenon
  <2> QED BY <2>4
<1> QED BY <1>1, <1>2

LEMMA LetKept == ASSUME ManagerInv, NEW c \in Manager!Caller, Manager!Let(c) PROVE ManagerInv'
<1>0. GroupTypes /\ SyncTypes /\ LockHeld /\ StopsAlone /\ gEdits \in Nat
  BY GroupSizes DEF ManagerInv, GroupTypes
<1>1. /\ gJob[c].pc = "lets" /\ Manager!CancelTwins(gJob[c].g)
      /\ gTable' = [gTable EXCEPT ![gJob[c].g].ext = FALSE]
      /\ gJob' = [gJob EXCEPT ![c].pc = "seeds"]
      /\ UNCHANGED <<gList, gSubs, gLock, gLoose, gEdits>>
  BY DEF Manager!Let
<1>2. gJob[c] \in SyncJob(gEdits) /\ gJob[c].g \in Group
  BY <1>0, OfSyncJob DEF SyncTypes
<1>3. gTwin' \in [Group -> BOOLEAN] /\ gFaults' \in 0 .. ManagerFaults
  BY <1>0, <1>1, <1>2, FaultsCounted DEF Manager!CancelTwins, GroupTypes
<1>4. [gTable[gJob[c].g] EXCEPT !.ext = FALSE] \in Manager!Runner \cup {Manager!Nobody}
  <2>1. gTable[gJob[c].g] \in Manager!Runner \cup {Manager!Nobody}
    BY <1>0, <1>2 DEF GroupTypes, Tables
  <2> QED BY <2>1, NotExternal
<1>5. gTable' \in Tables
  BY <1>0, <1>1, <1>2, <1>4 DEF GroupTypes, Tables
<1>6. GroupTypes'
  BY <1>0, <1>1, <1>3, <1>5 DEF GroupTypes
<1> DEFINE j == [gJob[c] EXCEPT !.pc = "seeds"]
<1>7. j \in SyncJob(gEdits) /\ j.pc = "seeds" /\ "seeds" \in Syncing
  <2>1. "seeds" \in Syncing
    BY DEF Syncing
  <2> QED BY <1>0, <1>2, <2>1, SyncAt
<1>8. gJob' = [gJob EXCEPT ![c] = j]
  BY <1>0, <1>1 DEF SyncTypes
<1> HIDE DEF j
<1>9. gJob' \in [Manager!Caller -> SyncJob(gEdits)] /\ gJob'[c] = j
      /\ \A d \in Manager!Caller \ {c} : gJob'[d] = gJob[d]
  BY <1>0, <1>7, <1>8 DEF SyncTypes
<1>10. gLock = c /\ \A d \in Manager!Caller \ {c} : gJob[d].pc \notin Syncing
  BY <1>0, <1>1 DEF LockHeld, Syncing
<1>11. SyncTypes' /\ LockHeld'
  BY <1>1, <1>7, <1>9, <1>10 DEF SyncTypes, LockHeld
<1>12. StopsAlone'
  BY <1>7, <1>9, <1>10 DEF StopsAlone, Syncing
<1> QED BY <1>6, <1>11, <1>12 DEF ManagerInv

\* The requests and what is awaited before the sync.
LEMMA RequestKept ==
    ASSUME ManagerInv, NEW c \in Manager!Caller, NEW n \in {gEdits, gEdits + 1}, NEW j \in SyncJob(n),
           j.pc \notin Syncing, gJob[c].pc \notin Syncing, gJob' = [gJob EXCEPT ![c] = j],
           gEdits' = n, n <= MaxEdits, UNCHANGED <<gLock, gTable, gLoose>>,
           gList' \in Lists(n), gSubs' \in [Group -> BOOLEAN], gTwin' \in [Group -> BOOLEAN],
           gFaults' \in 0 .. ManagerFaults
    PROVE  ManagerInv'
<1>0. GroupTypes /\ SyncTypes /\ LockHeld /\ StopsAlone /\ gEdits \in Nat
  BY GroupSizes DEF ManagerInv, GroupTypes
<1>1. gLock # c
  BY <1>0 DEF LockHeld
<1>2. SyncTypes' /\ LockHeld' /\ StopsAlone'
  BY <1>0, <1>1, JobKept
<1>3. GroupTypes'
  BY <1>0, GroupSizes DEF GroupTypes
<1> QED BY <1>2, <1>3 DEF ManagerInv

LEMMA Unsyncing == \A pc \in {"idle", "cancels", "releases", "waits"} : pc \notin Syncing
BY DEF Syncing

LEMMA BeginsKept ==
    ASSUME ManagerInv, NEW c \in Request, NEW h \in Group,
           \/ Manager!UpdateGroup(c, h) \/ Manager!Disable(c, h)
           \/ Manager!Subscribe(c, h) \/ Manager!Unsubscribe(c, h)
    PROVE  ManagerInv'
<1>0. GroupTypes /\ SyncTypes /\ gEdits \in Nat /\ c \in Manager!Caller
  BY GroupSizes DEF ManagerInv, GroupTypes, Manager!Caller
<1> SUFFICES ASSUME NEW m \in Nat, m = gEdits + 1 PROVE ManagerInv'
  BY <1>0
<1>1. gJob[c].pc = "idle" /\ m <= MaxEdits /\ gEdits' = m
      /\ UNCHANGED <<gTwin, gTable, gLock, gLoose, gFaults>>
  BY <1>0, GroupSizes DEF Manager!Begins, Manager!UpdateGroup, Manager!Disable, Manager!Subscribe,
     Manager!Unsubscribe
<1>2. gList \in Lists(gEdits) /\ gList \in Lists(m) /\ gSubs \in [Group -> BOOLEAN]
      /\ gTwin \in [Group -> BOOLEAN] /\ gFaults \in 0 .. ManagerFaults /\ m \in Nat
  BY <1>0, ListsGrow DEF GroupTypes
<1>3. \A v \in 0 .. m : [gList EXCEPT ![h].ver = v] \in Lists(m)
  BY <1>2 DEF Lists
<1>4. [gList EXCEPT ![h].ver = @ + 1] \in Lists(m)
  <2>1. gList[h].ver + 1 \in 0 .. m
    BY <1>0, <1>2 DEF Lists
  <2>2. [gList EXCEPT ![h].ver = gList[h].ver + 1] \in Lists(m)
    BY <1>3, <2>1
  <2> QED BY <2>2
<1>5. \A b \in BOOLEAN : [gList EXCEPT ![h].on = b] \in Lists(m)
  BY <1>2 DEF Lists
<1>6. gJob[c] \in SyncJob(m) /\ gJob \in [Manager!Caller -> SyncJob(m)]
  BY <1>0, SyncGrows DEF SyncTypes
<1>8. m \in {gEdits, gEdits + 1} /\ gJob[c].pc \notin Syncing /\ "waits" \notin Syncing
  BY <1>1, Unsyncing
<1> DEFINE j == [gJob[c] EXCEPT !.pc = "waits"]
<1>7. j \in SyncJob(m) /\ j.pc = "waits" /\ ([gJob EXCEPT ![c].pc = "waits"] = [gJob EXCEPT ![c] = j])
  <2>1. "waits" \in {"idle", "cancels", "releases", "waits"} \cup Syncing
    OBVIOUS
  <2>2. j \in SyncJob(m) /\ j.pc = "waits"
    <3>1. gJob[c] \in SyncJob(m)
      BY <1>6
    <3> QED BY ONLY <3>1, <2>1, SyncAt, m \in Nat
  <2> QED BY <1>6, <2>2
<1> HIDE DEF j
<1>9. ASSUME gList' \in Lists(m), gSubs' \in [Group -> BOOLEAN], NEW i \in SyncJob(m), i.pc \notin Syncing,
             gJob' = [gJob EXCEPT ![c] = i]
      PROVE  ManagerInv'
  <2>1. gTwin' \in [Group -> BOOLEAN] /\ gFaults' \in 0 .. ManagerFaults
    BY <1>1, <1>2
  <2> QED BY <1>0, <1>1, <1>8, <1>9, <2>1, RequestKept
<1>10. CASE Manager!UpdateGroup(c, h)
  <2>1. gList' \in Lists(m) /\ gSubs' = gSubs /\ gJob' = [gJob EXCEPT ![c] = j]
    <3>1. gList' = [gList EXCEPT ![h].ver = @ + 1] \/ gList' = [gList EXCEPT ![h].on = TRUE]
      BY <1>10 DEF Manager!UpdateGroup
    <3>2. gJob' = [gJob EXCEPT ![c].pc = "waits"] /\ gSubs' = gSubs
      BY <1>10 DEF Manager!UpdateGroup
    <3> QED BY <1>4, <1>5, <1>7, <3>1, <3>2
  <2> QED BY <1>2, <1>7, <1>8, <1>9, <2>1
<1>11. CASE Manager!Disable(c, h)
  <2>1. PICK l \in Lists(m) : gSubs' = gSubs /\
        (\/ gList' = gList /\ gJob' = [gJob EXCEPT ![c] = [Manager!Idle EXCEPT !.pc = "cancels", !.list = l, !.g = h]]
         \/ gList' = l /\ gJob' = [gJob EXCEPT ![c].pc = "waits"])
    BY <1>5, <1>11 DEF Manager!Disable
  <2>3. CASE gList' = gList /\ gJob' = [gJob EXCEPT ![c] = [Manager!Idle EXCEPT !.pc = "cancels", !.list = l, !.g = h]]
    <3> DEFINE i == [Manager!Idle EXCEPT !.pc = "cancels", !.list = l, !.g = h]
    <3>1. i \in SyncJob(m)
      BY ONLY IdleWith, m \in Nat, h \in Group, l \in Lists(m)
    <3>2. i.pc = "cancels"
      BY ONLY IdleWith, m \in Nat, h \in Group, l \in Lists(m)
    <3>3. gJob' = [gJob EXCEPT ![c] = i]
      BY <2>3
    <3> HIDE DEF i
    <3>4. i.pc \notin Syncing /\ gList' \in Lists(m) /\ gSubs' \in [Group -> BOOLEAN]
      BY <3>2, <2>3, <1>2, <2>1, Unsyncing
    <3> QED BY <1>9, <3>1, <3>3, <3>4
  <2>4. CASE gList' = l /\ gJob' = [gJob EXCEPT ![c].pc = "waits"]
    BY <1>2, <1>7, <1>8, <1>9, <2>1, <2>4
  <2> QED BY <2>1, <2>3, <2>4
<1>12. CASE Manager!Subscribe(c, h)
  <2>1. gList' = gList /\ gSubs' = [gSubs EXCEPT ![h] = TRUE] /\ gJob' = [gJob EXCEPT ![c].pc = "waits"]
    BY <1>12 DEF Manager!Subscribe
  <2>2. gSubs' \in [Group -> BOOLEAN]
    BY <1>2, <2>1
  <2> QED BY <1>2, <1>7, <1>8, <1>9, <2>1, <2>2
<1>13. CASE Manager!Unsubscribe(c, h)
  <2>1. gList' = gList /\ gSubs' = [gSubs EXCEPT ![h] = FALSE]
    BY <1>13 DEF Manager!Unsubscribe
  <2>2. PICK pc \in {"releases", "waits"} :
          gJob' = [gJob EXCEPT ![c] = [Manager!Idle EXCEPT !.pc = pc, !.g = h]]
    <3>1. CASE Manager!Up(h)
      BY <1>13, <3>1 DEF Manager!Unsubscribe
    <3>2. CASE ~Manager!Up(h)
      BY <1>13, <3>2 DEF Manager!Unsubscribe
    <3> QED BY <3>1, <3>2
  <2> DEFINE i == [Manager!Idle EXCEPT !.pc = pc, !.g = h]
  <2>3. i \in SyncJob(m) /\ i.pc = pc /\ pc \notin Syncing
    <3>1. pc \in {"idle", "cancels", "releases", "waits"}
      OBVIOUS
    <3>2. i \in SyncJob(m) /\ i.pc = pc
      BY <1>2, <3>1, IdleOf
    <3> QED BY <3>1, <3>2, Unsyncing
  <2>4. gJob' = [gJob EXCEPT ![c] = i]
    BY <2>2
  <2> HIDE DEF i
  <2>5. i.pc \notin Syncing /\ gList' \in Lists(m) /\ gSubs' \in [Group -> BOOLEAN]
    BY <2>1, <2>3, <1>2
  <2> QED BY <1>9, <2>3, <2>4, <2>5
<1> QED BY <1>10, <1>11, <1>12, <1>13

LEMMA SyncAnsweredKept ==
    ASSUME ManagerInv, NEW c \in Manager!Caller, Manager!Cancelled(c) \/ Manager!Released(c)
    PROVE  ManagerInv'
<1>0. GroupTypes /\ SyncTypes /\ gEdits \in Nat /\ gEdits <= MaxEdits
  BY GroupSizes DEF ManagerInv, GroupTypes
<1>1. /\ gJob[c].pc \in {"cancels", "releases"} /\ Manager!CancelTwins(gJob[c].g)
      /\ gList' \in {gList, gJob[c].list}
      /\ gJob' = [gJob EXCEPT ![c] = [Manager!Idle EXCEPT !.pc = "waits"]]
      /\ UNCHANGED <<gSubs, gTable, gLock, gLoose, gEdits>>
  BY DEF Manager!Cancelled, Manager!Released
<1>2. gJob[c].g \in Group /\ gJob[c].list \in Lists(gEdits)
  BY <1>0, OfSyncJob DEF SyncTypes
<1>3. gTwin' \in [Group -> BOOLEAN] /\ gFaults' \in 0 .. ManagerFaults /\ gList' \in Lists(gEdits)
      /\ gSubs' \in [Group -> BOOLEAN]
  BY <1>0, <1>1, <1>2, FaultsCounted DEF Manager!CancelTwins, GroupTypes
<1> DEFINE i == [Manager!Idle EXCEPT !.pc = "waits"]
<1>4. i \in SyncJob(gEdits) /\ i.pc = "waits"
  BY <1>0, IdleAt
<1>5. gJob' = [gJob EXCEPT ![c] = i]
  BY <1>1
<1> HIDE DEF i
<1>6. i.pc \notin Syncing /\ gJob[c].pc \notin Syncing /\ gEdits' = gEdits /\ gEdits \in {gEdits, gEdits + 1}
  BY <1>1, <1>4, Unsyncing
<1>7. UNCHANGED <<gLock, gTable, gLoose>>
  BY <1>1
<1> QED BY <1>0, <1>3, <1>4, <1>5, <1>6, <1>7, RequestKept

LEMMA LoopBeginsKept == ASSUME ManagerInv, Manager!LoopBegins PROVE ManagerInv'
<1>0. GroupTypes /\ SyncTypes /\ gEdits \in Nat /\ gEdits <= MaxEdits /\ "loop" \in Manager!Caller
  BY GroupSizes DEF ManagerInv, GroupTypes, Manager!Caller
<1>1. gJob["loop"].pc = "idle" /\ gJob' = [gJob EXCEPT !["loop"].pc = "waits"]
      /\ UNCHANGED <<gList, gSubs, gTable, gTwin, gLock, gLoose, gEdits, gFaults>>
  BY DEF Manager!LoopBegins
<1> DEFINE j == [gJob["loop"] EXCEPT !.pc = "waits"]
<1>2. gJob["loop"] \in SyncJob(gEdits) /\ "waits" \in {"idle", "cancels", "releases", "waits"} \cup Syncing
  BY <1>0 DEF SyncTypes
<1>3. j \in SyncJob(gEdits) /\ j.pc = "waits"
  BY <1>0, <1>2, SyncAt
<1>4. gJob' = [gJob EXCEPT !["loop"] = j]
  BY <1>0, <1>1 DEF SyncTypes
<1> HIDE DEF j
<1>5. j.pc \notin Syncing /\ gJob["loop"].pc \notin Syncing /\ gEdits' = gEdits
      /\ gEdits \in {gEdits, gEdits + 1}
  BY <1>1, <1>3, Unsyncing
<1>6. gList' \in Lists(gEdits) /\ gSubs' \in [Group -> BOOLEAN] /\ gTwin' \in [Group -> BOOLEAN]
      /\ gFaults' \in 0 .. ManagerFaults /\ UNCHANGED <<gLock, gTable, gLoose>>
  BY <1>0, <1>1 DEF GroupTypes
<1> QED BY <1>0, <1>3, <1>4, <1>5, <1>6, RequestKept

LEMMA PlaceKept == ASSUME ManagerInv, NEW h \in Group, Manager!Place(h) PROVE ManagerInv'
<1>0. GroupTypes /\ SyncTypes /\ LockHeld /\ StopsAlone
  BY DEF ManagerInv
<1>1. gTable[h] # Manager!Nobody /\ gTable' = [gTable EXCEPT ![h].placing = TRUE]
      /\ UNCHANGED <<gList, gSubs, gTwin, gLock, gJob, gLoose, gEdits, gFaults>>
  BY DEF Manager!Place, Manager!Up
<1>2. gTable[h] \in Manager!Runner
  BY <1>0, <1>1 DEF GroupTypes, Tables
<1>3. [gTable[h] EXCEPT !.placing = TRUE] \in Manager!Runner
  BY <1>2 DEF Manager!Runner
<1>4. gTable' \in Tables /\ \A g \in Group \ {h} : gTable'[g] = gTable[g]
  BY <1>0, <1>1, <1>3 DEF GroupTypes, Tables
<1>5. GroupTypes' /\ SyncTypes' /\ LockHeld'
  BY <1>0, <1>1, <1>4 DEF GroupTypes, SyncTypes, LockHeld
<1>6. StopsAlone'
  <2> SUFFICES ASSUME NEW c \in Manager!Caller, gJob[c].pc = "stops"
               PROVE  gTable'[gJob[c].g] = Manager!Nobody
    BY <1>1 DEF StopsAlone
  <2>1. gJob[c].g \in Group /\ gTable[gJob[c].g] = Manager!Nobody
    BY <1>0, OfSyncJob, GroupSizes DEF SyncTypes, StopsAlone, GroupTypes
  <2> QED BY <1>1, <1>4, <2>1
<1> QED BY <1>5, <1>6 DEF ManagerInv

LEMMA PlacedKept == ASSUME ManagerInv, NEW h \in Group, Manager!Placed(h) PROVE ManagerInv'
<1>0. GroupTypes /\ SyncTypes /\ LockHeld /\ StopsAlone /\ gEdits \in Nat
  BY GroupSizes DEF ManagerInv, GroupTypes
<1>1. gTwin' \in [Group -> BOOLEAN] /\ UNCHANGED <<gList, gSubs, gLock, gEdits, gFaults>>
  BY <1>0 DEF Manager!Placed, GroupTypes
<1>2. CASE /\ gTable[h] # Manager!Nobody
           /\ gTable' = [gTable EXCEPT ![h].placing = FALSE] /\ UNCHANGED <<gJob, gLoose>>
  <2>2. gTable[h] \in Manager!Runner
    BY <1>0, <1>2 DEF GroupTypes, Tables
  <2>3. [gTable[h] EXCEPT !.placing = FALSE] \in Manager!Runner
    BY <2>2 DEF Manager!Runner
  <2>4. gTable' \in Tables /\ \A g \in Group \ {h} : gTable'[g] = gTable[g]
    BY <1>0, <1>2, <2>3 DEF GroupTypes, Tables
  <2>5. GroupTypes' /\ SyncTypes' /\ LockHeld'
    BY <1>0, <1>1, <1>2, <2>4 DEF GroupTypes, SyncTypes, LockHeld
  <2>6. StopsAlone'
    <3> SUFFICES ASSUME NEW c \in Manager!Caller, gJob[c].pc = "stops"
                 PROVE  gTable'[gJob[c].g] = Manager!Nobody
      BY <1>2 DEF StopsAlone
    <3>1. gJob[c].g \in Group /\ gTable[gJob[c].g] = Manager!Nobody
      BY <1>0, OfSyncJob DEF SyncTypes, StopsAlone
    <3> QED BY <1>2, <2>4, <3>1
  <2> QED BY <2>5, <2>6 DEF ManagerInv
<1>3. ASSUME NEW c \in Manager!Caller, gJob[c].pc = "stops", gJob[c].r.placing,
             gJob' = [gJob EXCEPT ![c].r.placing = FALSE], UNCHANGED <<gTable, gLoose>>
      PROVE  ManagerInv'
  <2> DEFINE j == [gJob[c] EXCEPT !.r.placing = FALSE]
  <2>1. gJob[c] \in SyncJob(gEdits)
    BY <1>0 DEF SyncTypes
  <2>2. [gJob[c].r EXCEPT !.placing = FALSE] \in Manager!Runner \cup {Manager!Nobody}
    <3>1. gJob[c].r \in Manager!Runner \cup {Manager!Nobody}
      BY <1>0, <2>1, OfSyncJob
    <3> QED BY <3>1, NotExternal
  <2>3. j \in SyncJob(gEdits) /\ j.pc = gJob[c].pc /\ j.g = gJob[c].g
    BY <2>1, <2>2 DEF SyncJob
  <2>4. gJob' = [gJob EXCEPT ![c] = j]
    BY <1>0, <1>3 DEF SyncTypes
  <2> HIDE DEF j
  <2>5. gJob' \in [Manager!Caller -> SyncJob(gEdits)]
        /\ \A d \in Manager!Caller : gJob'[d].pc = gJob[d].pc /\ gJob'[d].g = gJob[d].g
    BY <1>0, <2>3, <2>4 DEF SyncTypes
  <2>6. GroupTypes' /\ SyncTypes' /\ LockHeld' /\ StopsAlone'
    BY <1>0, <1>1, <1>3, <2>5 DEF GroupTypes, SyncTypes, LockHeld, StopsAlone
  <2> QED BY <2>6 DEF ManagerInv
<1>4. CASE gLoose' = [gLoose EXCEPT ![h] = FALSE] /\ UNCHANGED <<gTable, gJob>>
  BY <1>0, <1>1, <1>4 DEF ManagerInv, GroupTypes, SyncTypes, LockHeld, StopsAlone
<1> QED BY <1>2, <1>3, <1>4 DEF Manager!Placed, Manager!Up

LEMMA ManagerKept == ManagerInv /\ [Manager!Next]_(Manager!vars) => ManagerInv'
<1> SUFFICES ASSUME ManagerInv, [Manager!Next]_(Manager!vars) PROVE ManagerInv'
  OBVIOUS
<1>1. CASE Manager!LoopBegins
  BY <1>1, LoopBeginsKept
<1>2. ASSUME NEW c \in Manager!Caller, Manager!Step(c) \/ Manager!CancelledInStop(c) PROVE ManagerInv'
  <2>1. CASE Manager!Acquire(c)
    BY <2>1, AcquireKept
  <2>2. CASE Manager!Stopped(c)
    <3>1. gJob[c].pc \in Syncing /\ Manager!Turn(c, gJob[c].list, gTable, gJob[c].todo)
          /\ UNCHANGED <<gList, gSubs, gTwin, gLoose, gEdits, gFaults>>
      BY <2>2 DEF Manager!Stopped, Syncing
    <3> QED BY <3>1, TurnsKept
  <2>3. CASE Manager!Let(c)
    BY <2>3, LetKept
  <2>4. CASE Manager!Seeded(c)
    <3>1. gJob[c].pc \in Syncing /\ Manager!Turn(c, gJob[c].list, gTable, gJob[c].todo)
          /\ UNCHANGED <<gList, gSubs, gTwin, gLoose, gEdits, gFaults>>
      BY <2>4 DEF Manager!Seeded, Syncing
    <3> QED BY <3>1, TurnsKept
  <2>5. CASE Manager!Cancelled(c) \/ Manager!Released(c)
    BY <2>5, SyncAnsweredKept
  <2>6. CASE Manager!CancelledInStop(c)
    BY <2>6, CancelledInStopKept
  <2> QED BY <1>2, <2>1, <2>2, <2>3, <2>4, <2>5, <2>6 DEF Manager!Step
<1>3. ASSUME NEW c \in Request, NEW h \in Group,
             \/ Manager!UpdateGroup(c, h) \/ Manager!Disable(c, h)
             \/ Manager!Subscribe(c, h) \/ Manager!Unsubscribe(c, h)
      PROVE  ManagerInv'
  BY <1>3, BeginsKept
<1>4. ASSUME NEW h \in Group, Manager!Place(h) \/ Manager!Placed(h) PROVE ManagerInv'
  BY <1>4, PlaceKept, PlacedKept
<1>5. CASE UNCHANGED Manager!vars
  <2>1. UNCHANGED <<gList, gSubs, gTable, gTwin, gLock, gJob, gLoose, gEdits, gFaults>>
    BY <1>5 DEF Manager!vars
  <2> QED BY <2>1 DEF ManagerInv, GroupTypes, SyncTypes, LockHeld, StopsAlone
<1> QED BY <1>1, <1>2, <1>3, <1>4, <1>5 DEF Manager!Next

LEMMA RunnersCount == ASSUME NEW S PROVE Manager!Cardinality(S) = Cardinality(S)
BY DEF Manager!Cardinality, Cardinality

LEMMA ManagerGiven == ManagerInv => Manager!TypeOK /\ Manager!OneRunner
<1> SUFFICES ASSUME ManagerInv PROVE Manager!TypeOK /\ Manager!OneRunner
  OBVIOUS
<1>0. GroupTypes /\ SyncTypes /\ LockHeld /\ StopsAlone /\ gEdits \in Nat
  BY GroupSizes DEF ManagerInv, GroupTypes
<1>1. Manager!TypeOK
  <2>1. Lists(gEdits) \subseteq [Group -> Manager!Version]
    BY <1>0, GroupSizes DEF Lists, Manager!Version, GroupTypes
  <2>2. SyncJob(gEdits) \subseteq
          [pc : {"idle", "cancels", "releases", "waits", "stops", "lets", "seeds"},
           list : [Group -> Manager!Version], todo : SUBSET Group, g : Group,
           r : Manager!Runner \cup {Manager!Nobody}]
    BY <2>1 DEF SyncJob, Syncing
  <2> QED BY <1>0, <2>1, <2>2 DEF Manager!TypeOK, GroupTypes, SyncTypes, Tables
<1>2. Manager!OneRunner
  <2> SUFFICES ASSUME NEW g \in Group
               PROVE  Cardinality({c \in Manager!Caller : gJob[c].pc = "stops" /\ gJob[c].g = g})
                        + (IF Manager!Up(g) THEN 1 ELSE 0) <= 1
    BY RunnersCount DEF Manager!OneRunner
  <2> DEFINE S == {c \in Manager!Caller : gJob[c].pc = "stops" /\ gJob[c].g = g}
  <2>1. S \subseteq {gLock}
    BY <1>0 DEF LockHeld, Syncing
  <2>2. Manager!Up(g) => S = {}
    BY <1>0 DEF StopsAlone, Manager!Up
  <2>3. S = {} \/ S = {gLock}
    BY <2>1
  <2>4. Cardinality({}) = 0 /\ Cardinality({gLock}) = 1
    BY FS_EmptySet, FS_Singleton
  <2> HIDE DEF S
  <2>5. Cardinality(S) + (IF Manager!Up(g) THEN 1 ELSE 0) <= 1
    BY <2>2, <2>3, <2>4
  <2> QED BY <2>5 DEF S
<1> QED BY <1>1, <1>2

-----------------------------------------------------------------------------
(* Copy trading: each part keeps its invariant. *)

Run == RunOrders \/ RunPositions \/ RunManager
tradingVars == <<part, vars, positionVars, managerVars>>

TypesInv ==
    \/ part = "Orders" /\ OrdersTypes
    \/ part = "Positions" /\ PosInv
    \/ part = "Manager" /\ ManagerInv

LEMMA TypesInvInit == TradingInit => TypesInv
BY TypesInit, PosInit, ManagerInvInit DEF TradingInit, TypesInv

\* A step of one part is a step of its module.
LEMMA PartSteps ==
    ASSUME [Run]_tradingVars
    PROVE  /\ part' = part
           /\ part = "Orders" => [Next]_vars
           /\ part = "Positions" => [Positions!Next]_(Positions!vars)
           /\ part = "Manager" => [Manager!Next]_(Manager!vars)
<1>1. CASE RunOrders
  BY <1>1 DEF RunOrders
<1>2. CASE RunPositions
  BY <1>2 DEF RunPositions
<1>3. CASE RunManager
  BY <1>3 DEF RunManager
<1>4. CASE UNCHANGED tradingVars
  <2>1. part' = part /\ UNCHANGED vars /\ UNCHANGED positionVars /\ UNCHANGED managerVars
    BY <1>4 DEF tradingVars
  <2>2. UNCHANGED Positions!vars
    BY <2>1 DEF positionVars, Positions!vars, Positions!leaderVars, Positions!feedVars, Positions!brokerVars,
       Positions!boundVars
  <2>3. UNCHANGED Manager!vars
    BY <2>1 DEF managerVars, Manager!vars
  <2> QED BY <2>1, <2>2, <2>3
<1> QED BY <1>1, <1>2, <1>3, <1>4 DEF Run

LEMMA TypesInvKept == TypesInv /\ [Run]_tradingVars => TypesInv'
<1> SUFFICES ASSUME TypesInv, [Run]_tradingVars PROVE TypesInv'
  OBVIOUS
<1>1. CASE part = "Orders" /\ OrdersTypes
  BY <1>1, PartSteps, TypesKept DEF TypesInv
<1>2. CASE part = "Positions" /\ PosInv
  BY <1>2, PartSteps, PosKept DEF TypesInv
<1>3. CASE part = "Manager" /\ ManagerInv
  BY <1>3, PartSteps, ManagerKept DEF TypesInv
<1> QED BY <1>1, <1>2, <1>3 DEF TypesInv

\* Each part keeps its types, the mirror of positions its beliefs and the manager of
\* runners its lock, whatever polls, events, edits, answers, faults and restarts there are
\* (app/copy).
THEOREM TradingInvariant == Trading => []TypesInv
<1>1. TradingInit => TypesInv
  BY TypesInvInit
<1>2. TypesInv /\ [Run]_tradingVars => TypesInv'
  BY TypesInvKept
<1> QED BY <1>1, <1>2, PTL DEF Trading, Run, tradingVars

\* What the tasks of a copy group hold in memory, ask of a broker and wait for has its
\* type, with pairs of orders and overtaken answers too (copy/orders.py, group_runner.py,
\* manager.py).
THEOREM TypesCorrect == Trading => []TypesOK
<1>1. TypesInv => TypesOK
  BY TypesGiven, PosGiven, ManagerGiven DEF TypesInv, TypesOK
<1> QED BY <1>1, TradingInvariant, PTL

\* A follower never holds more than the leader held, nor anything of a position that is
\* left alone, unless what group_runner.py:776 relies on fails: an answer is lost, or the
\* broker's list is behind while orders fail or the mirror is restarted or flattened; and a
\* group never has two runners, one that stops included (manager.py:67).
THEOREM PositionsInProportion == Trading => []InProportion
<1>1. TypesInv => InProportion
  BY PosGiven, ManagerGiven DEF TypesInv, InProportion
<1> QED BY <1>1, TradingInvariant, PTL

TwinsInv == part = "Orders" => TwinInv

LEMMA TwinsInvKept ==
    TypesInv /\ TwinsInv /\ [Run]_tradingVars => TwinsInv'
<1> SUFFICES ASSUME TypesInv, TwinsInv, [Run]_tradingVars,
                    part' = "Orders"
             PROVE  TwinInv'
  BY DEF TwinsInv
<1>1. part = "Orders" /\ [Next]_vars
  BY PartSteps
<1> QED BY <1>1, TwinsKept DEF TypesInv, TwinsInv

\* Over polls, events, reconciles, pairs, answers in any order, fills and restarts: a working
\* order at the follower that the order mirror has forgotten, and a second working one for
\* one order of the leader, has a cause at its placement: its answer was lost, it was placed
\* while an older list, modification or cancellation was still to be answered, or its leader
\* order was the second leg of a pair that already had a twin (copy/orders.py).
THEOREM TwinsAreKnown == Trading => []TwinsKnown
<1>1. TradingInit => TwinsInv
  BY TwinsInit DEF TradingInit, TwinsInv
<1>2. TypesInv /\ TwinsInv /\ [Run]_tradingVars => TwinsInv'
  BY TwinsInvKept
<1>3. TypesInv /\ TwinsInv => TwinsKnown
  BY TwinsGiven DEF TypesInv, TwinsInv, TwinsKnown
<1> QED BY <1>1, <1>2, <1>3, TradingInvariant, PTL DEF Trading, Run, tradingVars
=============================================================================
