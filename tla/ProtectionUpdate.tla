--------------------------- MODULE ProtectionUpdate ---------------------------
(***************************************************************************)
(* The protective orders of one tracked trade on one account after its     *)
(* entry: set_sl_tp (engine/manage.py) replaces the stop or the targets,   *)
(* move_sl and trail_active (engine/bracket.py) resize the stop when a     *)
(* target was reported hit.  All of them hold the trade's lock             *)
(* (TradeLocks), so one of them runs at a time; the targets fill whenever  *)
(* the market says so, and the report of a fill arrives later.             *)
(*                                                                         *)
(* The entry: two contracts, one stop over both, one target per contract.  *)
(* Every call to the broker is one step with the outcomes accepted,        *)
(* refused and unknown (answer lost, executed or not); the re-reading that *)
(* follows a cancel that failed is part of its step.  Prices are left out. *)
(***************************************************************************)
EXTENDS Integers, Sequences, FiniteSets, Functions, FiniteSetsExt

CONSTANTS
    MaxUpdates,   \* bound: set_sl_tp signals
    MaxFaults     \* bound: calls refused or unknown, orders cancelled by hand

Entry == 2
Id == 1 .. 3 + 2 * MaxUpdates
NoId == 0
Slice == [id \in {2, 3} |-> id - 1]        \* tp_slices: targets 2 and 3 are TP1 and TP2

VARIABLES
    pos,          \* contracts held
    order,        \* id -> [stop: BOOLEAN, qty: Nat]; the orders ever placed
    live,         \* ids working at the broker
    rec,          \* the account's tracked info, or qty = -1 when dropped
    reports,      \* tpN_hit signals under way, in order
    job,          \* the running signal
    updates, faults,
    lost,         \* ids of placements whose answer was lost: reported, not tracked
    reported,     \* an error of this trade was logged
    raced         \* history: a target filled while set_sl_tp ran

vars == <<pos, order, live, rec, reports, job, updates, faults, lost, reported, raced>>
market == <<pos, reports, raced>>
broker == <<order, live>>
counters == <<updates, faults>>

Idle == [at |-> "idle", tp |-> FALSE, qty |-> 0, info |-> 0, new |-> NoId, left |-> {}]
Known(r) == {r.sl} \cup r.extra \cup r.tps
Tracked == rec.qty >= 0

TypeOK ==
    /\ pos \in -2 .. 2 /\ live \subseteq DOMAIN order /\ DOMAIN order \subseteq Id
    /\ rec.sl \in Id \cup {NoId} /\ rec.extra \subseteq Id /\ rec.tps \subseteq Id
    /\ rec.qty \in -1 .. 2
    /\ reports \in Seq({1, 2}) /\ Len(reports) <= 2
    /\ job.at \in {"idle", "modify", "stop", "retire stop", "target", "retire targets", "rollback",
                   "resize", "extras"}
    /\ updates \in 0 .. MaxUpdates /\ faults \in 0 .. MaxFaults
    /\ lost \subseteq Id /\ reported \in BOOLEAN /\ raced \in BOOLEAN

Init ==
    /\ pos = Entry
    /\ order = [id \in 1 .. 3 |-> IF id = 1 THEN [stop |-> TRUE, qty |-> Entry]
                                            ELSE [stop |-> FALSE, qty |-> 1]]
    /\ live = 1 .. 3
    /\ rec = [sl |-> 1, extra |-> {}, tps |-> {2, 3}, qty |-> Entry]
    /\ reports = <<>>
    /\ job = Idle
    /\ updates = 0 /\ faults = 0
    /\ lost = {} /\ reported = FALSE /\ raced = FALSE
------------------------------------------------------------------------------
(* The broker                                                              *)

Fails == faults < MaxFaults /\ faults' = faults + 1 /\ reported' = TRUE
Works == UNCHANGED <<faults, reported>>
NextId == Cardinality(DOMAIN order) + 1

\* place_order: accepted under an id, refused, or the answer is lost.
Placed(stop, qty) ==
    /\ order' = [id \in DOMAIN order \cup {NextId} |->
                    IF id = NextId THEN [stop |-> stop, qty |-> qty] ELSE order[id]]
    /\ live' = live \cup {NextId} /\ UNCHANGED lost
    /\ Works
NotPlaced ==
    /\ \/ UNCHANGED <<order, live, lost>>
       \/ /\ order' = [id \in DOMAIN order \cup {NextId} |->
                          IF id = NextId THEN [stop |-> job.at = "stop", qty |-> job.qty] ELSE order[id]]
          /\ live' = live \cup {NextId} /\ lost' = lost \cup {NextId}
    /\ Fails

\* cancel_or_confirm_gone, for a set of orders at once: `gone` are those whose
\* end is confirmed; the others may or may not be working still.
CancelConfirmed(ids, gone) ==
    /\ gone \subseteq ids
    /\ live' = live \ gone \/ (gone # ids /\ live' = live \ ids)
    /\ IF gone = ids THEN Works ELSE Fails
    /\ UNCHANGED <<order, lost>>

\* The nearer target first.
TargetFills(id) ==
    /\ id \in live /\ ~order[id].stop
    /\ pos > 0
    /\ id = 3 => 2 \notin live
    /\ pos' = pos - order[id].qty
    /\ live' = live \ {id}
    /\ reports' = IF id \in DOMAIN Slice THEN Append(reports, Slice[id]) ELSE reports
    /\ raced' = (raced \/ job.at \notin {"idle", "resize", "extras"})
    /\ UNCHANGED <<order, rec, job, counters, lost, reported>>

CancelledByHand(id) ==
    /\ id \in live
    /\ live' = live \ {id}
    /\ Fails
    /\ UNCHANGED <<market, order, rec, job, updates, lost>>
------------------------------------------------------------------------------
(* set_sl_tp: a copy of the account's info is edited and stored at the end *)

\* apply_urgent: the position is read; a flat account is left alone.
SetSlTp(sl, tp) ==
    /\ job = Idle /\ updates < MaxUpdates /\ pos > 0 /\ Tracked
    /\ updates' = updates + 1
    /\ job' = [Idle EXCEPT !.at = IF ~sl THEN "target" ELSE IF rec.sl # NoId THEN "modify" ELSE "stop",
                           !.tp = tp, !.qty = pos, !.info = [rec EXCEPT !.qty = pos]]
    /\ UNCHANGED <<market, broker, rec, faults, lost, reported>>

\* The info as the handler leaves it: stored, or taken to the target's part.
Continue(info, at) ==
    IF at = "end" \/ (at = "target" /\ ~job.tp)
      THEN job' = Idle /\ rec' = info
      ELSE job' = [job EXCEPT !.at = at, !.info = info] /\ UNCHANGED rec

\* set_stop: a tracked stop is modified in place; refused, a fresh one is
\* placed; an unknown outcome keeps it as it was.
ModifyStop ==
    /\ job.at = "modify"
    /\ LET old == job.info.sl
           resized == [order EXCEPT ![old].qty = job.qty]
       IN \/ /\ old \in live /\ order' = resized
             /\ Works /\ Continue(job.info, "target")
          \/ /\ UNCHANGED order
             /\ faults < MaxFaults \/ old \notin live
             /\ faults' = (IF old \in live THEN faults + 1 ELSE faults) /\ UNCHANGED reported
             /\ Continue(job.info, "stop")
          \/ /\ order' \in (IF old \in live THEN {order, resized} ELSE {order})
             /\ Fails /\ Continue(job.info, "target")
    /\ UNCHANGED <<market, live, updates, lost>>

\* The fresh stop; the old one is retired once it works.
PlaceStop ==
    /\ job.at = "stop"
    /\ \/ /\ Placed(TRUE, job.qty)
          /\ job' = [job EXCEPT !.at = IF job.info.sl = NoId THEN "target" ELSE "retire stop",
                                !.new = job.info.sl, !.info.sl = NextId]
          /\ UNCHANGED rec
       \/ NotPlaced /\ Continue(job.info, "target")
    /\ UNCHANGED <<market, updates>>

\* Fault: a stop that will not cancel is dropped from the record.
RetireStopForgets ==
    /\ job.at = "retire stop"
    /\ \E gone \in SUBSET {job.new} :
           /\ CancelConfirmed({job.new}, gone)
           /\ Continue(job.info, "target")
    /\ UNCHANGED <<market, updates>>

\* The old stop: gone, or kept in the record as an extra one.
RetireStop ==
    /\ job.at = "retire stop"
    /\ \E gone \in SUBSET {job.new} :
           /\ CancelConfirmed({job.new}, gone)
           /\ Continue([job.info EXCEPT !.extra = @ \cup ({job.new} \ gone)], "target")
    /\ UNCHANGED <<market, updates>>

\* set_target: the new target first.
PlaceTarget ==
    /\ job.at = "target"
    /\ \/ /\ Placed(FALSE, job.qty)
          /\ job' = [job EXCEPT !.at = "retire targets", !.new = NextId]
          /\ UNCHANGED rec
       \/ NotPlaced /\ Continue(job.info, "end")
    /\ UNCHANGED <<market, updates>>

\* The old ones, all at once; when one survives the new target is rolled back.
RetireTargets ==
    /\ job.at = "retire targets"
    /\ \E gone \in SUBSET job.info.tps :
           /\ CancelConfirmed(job.info.tps, gone)
           /\ IF gone = job.info.tps
                THEN Continue([job.info EXCEPT !.tps = {job.new}], "end")
                ELSE /\ job' = [job EXCEPT !.at = "rollback", !.left = job.info.tps \ gone]
                     /\ UNCHANGED rec
    /\ UNCHANGED <<market, updates>>

Rollback ==
    /\ job.at = "rollback"
    /\ \E gone \in SUBSET {job.new} :
           /\ CancelConfirmed({job.new}, gone)
           /\ Continue([job.info EXCEPT !.tps = job.left \cup ({job.new} \ gone)], "end")
    /\ UNCHANGED <<market, updates>>
------------------------------------------------------------------------------
(* move_sl and trail_active                                                *)

\* Fault: the slice that was just hit still counts.
RemainingWithHit(n) == Entry - Cardinality({id \in DOMAIN Slice : Slice[id] < n})

\* _remaining_qty: the entry less the slices up to the reported target.
Remaining(n) == Entry - Cardinality({id \in DOMAIN Slice : Slice[id] <= n})

TargetHit ==
    /\ job = Idle /\ reports # <<>>
    /\ reports' = Tail(reports)
    /\ job' = IF Tracked /\ rec.sl # NoId
                THEN [Idle EXCEPT !.at = "resize", !.qty = Remaining(Head(reports))] ELSE Idle
    /\ UNCHANGED <<pos, broker, rec, counters, lost, reported, raced>>

\* _resize_stop, or the stop's retirement after the last target; an error ends
\* the account's part.
Resize ==
    /\ job.at = "resize"
    /\ LET sl == rec.sl IN
       \/ /\ sl \in live
          /\ IF job.qty > 0
               THEN /\ order' = [order EXCEPT ![sl].qty = job.qty] /\ UNCHANGED live
                    /\ rec' = [rec EXCEPT !.qty = job.qty]
               ELSE /\ live' = live \ {sl} /\ UNCHANGED order
                    /\ rec' = [rec EXCEPT !.qty = 0, !.sl = NoId]
          /\ Works
          /\ job' = [job EXCEPT !.at = "extras"]
       \/ /\ live' \in (IF job.qty = 0 THEN {live, live \ {sl}} ELSE {live})
          /\ order' \in (IF job.qty > 0 /\ sl \in live
                           THEN {order, [order EXCEPT ![sl].qty = job.qty]} ELSE {order})
          /\ IF sl \in live THEN Fails ELSE reported' = TRUE /\ UNCHANGED faults
          /\ UNCHANGED rec
          /\ job' = Idle
    /\ UNCHANGED <<market, updates, lost>>

\* _retire_extra_stops, then _untrack_if_flat.
RetireExtras ==
    /\ job.at = "extras"
    /\ \E left \in SUBSET rec.extra :
           /\ live' = live \ (rec.extra \ left) \/ live' = live \ rec.extra
           /\ IF left \cap live = {} THEN Works ELSE Fails
           /\ rec' = IF rec.qty = 0 /\ left = {} THEN [rec EXCEPT !.qty = -1]
                                                 ELSE [rec EXCEPT !.extra = left]
    /\ job' = Idle
    /\ UNCHANGED <<market, order, updates, lost>>

Signal ==
    \/ \E sl, tp \in BOOLEAN : (sl \/ tp) /\ SetSlTp(sl, tp)
    \/ ModifyStop \/ PlaceStop \/ RetireStop \/ PlaceTarget \/ RetireTargets \/ Rollback
    \/ TargetHit \/ Resize \/ RetireExtras

Next ==
    \/ Signal
    \/ \E id \in live : TargetFills(id) \/ CancelledByHand(id)

Spec == Init /\ [][Next]_vars
------------------------------------------------------------------------------
(* Properties                                                              *)

\* No signal runs, every fill of the entry's targets has been reported, no error
\* was logged, and no target filled while set_sl_tp was at its orders.
Settled == job = Idle /\ reports = <<>> /\ ~reported /\ ~raced
WorkingStops == {id \in live : order[id].stop}
StopSize == MapThenSumSet(LAMBDA id : order[id].qty, WorkingStops)

\* While contracts are held, settled, the working stops are for exactly these.
HeldIsCovered == Settled /\ pos > 0 => StopSize = pos

\* A flat account keeps a stop, settled, only after a target that set_sl_tp placed
\* closed the position (no tpN_hit tells of it): that stop is still in the record.
FlatStopIsKnown ==
    Settled /\ pos = 0 /\ StopSize # 0 =>
        /\ WorkingStops \subseteq {rec.sl}
        /\ \E id \in DOMAIN order \ live : ~order[id].stop /\ id \notin DOMAIN Slice

\* Not so: "every target filled: a stop left working would open a reverse trade"
\* (bracket.py:172).  The stop beside a target of set_sl_tp's is left working.
FlatHasNoStop == Settled /\ pos = 0 => WorkingStops = {}

\* Not so: "two targets working could close more than the position holds"
\* (manage.py:194), of one target: a position is never reversed without an error.
\* set_sl_tp places its target for what was held when it began, though an old one
\* fills while it works.
NeverReversed == ~reported => pos >= 0

\* Every order that may be working stays in the record, whatever was refused or
\* lost, as long as no target fills while set_sl_tp runs; a record is only
\* dropped with nothing working, unless an error was logged before.
RecordKeepsOrders ==
    job = Idle /\ ~raced =>
        IF Tracked THEN live \subseteq Known(rec) \cup lost ELSE live = {} \/ reported

\* "tracked either way: every id that may be live stays known" (manage.py:255).
LiveStaysKnown ==
    job = Idle /\ ~reported => live \subseteq (IF Tracked THEN Known(rec) ELSE {}) \cup lost
==============================================================================
