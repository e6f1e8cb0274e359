---------------------------- MODULE TsHunterTrade ----------------------------
(***************************************************************************)
(* The life of TS-Hunter trades on one account and one contract: partial   *)
(* and full closes (app/engine/ts_hunter.py), the fallback that flattens   *)
(* the contract (_close_contract of app/engine/common.py) and the record   *)
(* that outlives each of them.                                             *)
(*                                                                         *)
(* A close is a sequence of broker calls, each of which is answered,       *)
(* refused or loses its answer; the stop may fill between any two of them. *)
(* The trade lock (TradeLocks) serialises the handlers of one trade; those *)
(* of different trades interleave.  What an entry does is ProtectiveStop's *)
(* matter: here a trade begins with its position and, if its signal named  *)
(* one, its stop.  The account stays routed, the trade is long.            *)
(***************************************************************************)
EXTENDS Integers, FiniteSets

CONSTANTS Trade,       \* trade ids
          Qty,         \* contracts of an entry
          Percent,     \* percentages of the partial closes
          MaxSignals,  \* bound: management signals per trade
          StopFills    \* stops may fill

\* what the constants satisfy
QtyAssumption == Qty \in Nat \ {0} /\ MaxSignals \in Nat
PercentAssumption == Percent \subseteq 1..100 /\ StopFills \in BOOLEAN

Unknown == -1     \* remaining_qty is None

VARIABLES rec,      \* the trade's record of the account
          share,    \* contracts of the account's position that are the trade's
          stop,     \* contracts of its stop working at the broker, 0 if none
          pc,       \* where its handler stands
          qty,      \* contracts the partial close under way sends
          trouble,  \* the close under way met an error
          result,   \* how its last close ended
          signals,  \* management signals so far
          stale     \* history: trades closed at the broker whose record stayed as it was

vars == <<rec, share, stop, pc, qty, trouble, result, signals, stale>>

Record == [tracked: BOOLEAN, remaining: {Unknown} \cup 0..Qty, sl: BOOLEAN]
Busy == {"partial", "adjust", "cancel", "close", "recancel", "sweep", "liquidate", "resweep"}

TypeOK ==
  /\ rec \in [Trade -> Record]
  /\ share \in [Trade -> Int]
  /\ stop \in [Trade -> 0..Qty]
  /\ pc \in [Trade -> {"new", "idle"} \cup Busy]
  /\ qty \in [Trade -> 0..Qty]
  /\ trouble \in [Trade -> BOOLEAN]
  /\ result \in [Trade -> {"none", "ok", "error", "closed", "flattened"}]
  /\ signals \in [Trade -> 0..MaxSignals]
  /\ stale \subseteq Trade

Init ==
  /\ rec = [t \in Trade |-> [tracked |-> FALSE, remaining |-> 0, sl |-> FALSE]]
  /\ share = [t \in Trade |-> 0] /\ stop = [t \in Trade |-> 0]
  /\ pc = [t \in Trade |-> "new"] /\ qty = [t \in Trade |-> 0]
  /\ trouble = [t \in Trade |-> FALSE] /\ result = [t \in Trade |-> "none"]
  /\ signals = [t \in Trade |-> 0] /\ stale = {}

-----------------------------------------------------------------------------
(* Helpers *)

Goto(t, l) == pc' = [pc EXCEPT ![t] = l]
Return(t, r) == Goto(t, "idle") /\ result' = [result EXCEPT ![t] = r]
Sell(t, n) == share' = [share EXCEPT ![t] = @ - n]
Remaining(t, n) == rec' = [rec EXCEPT ![t].remaining = n]

\* The close went through: the account leaves the record.
Untrack(t) == rec' = [rec EXCEPT ![t].tracked = FALSE]

\* Python's round: to the nearest, a half to the even neighbour.
Rounded(n, d) == LET whole == n \div d
                     twice == 2 * (n % d)
                 IN IF twice > d \/ (twice = d /\ whole % 2 = 1) THEN whole + 1 ELSE whole

\* Fault: the share is taken of the entry, not of what remains of it.
ToCloseOfEntry(remaining, percent) ==
  LET n == Rounded(Qty * percent, 100) IN IF n > 1 THEN n ELSE 1

\* The contracts a partial close sends: a share of what remains, at least one.
ToClose(remaining, percent) ==
  LET n == Rounded(remaining * percent, 100)
      some == IF n < remaining THEN n ELSE remaining
  IN IF some > 1 THEN some ELSE 1

\* A cancel or a change of the stop: done while the stop works, else refused; a
\* refused or unanswered one leaves the stop as it was or took effect after all.
StopSet(t, n) == stop[t] > 0 /\ stop' = [stop EXCEPT ![t] = n]
StopFails(t, n) == stop' \in {stop, [stop EXCEPT ![t] = IF @ > 0 THEN n ELSE 0]}

\* A market order of n contracts whose answer is lost: sent or not.
SellLost(t, n) == share' \in {share, [share EXCEPT ![t] = @ - n]}

-----------------------------------------------------------------------------
(* Entry and stop *)

\* handle_entry went through, with a stop or, for a signal without one, without.
Enter(t) ==
  /\ pc[t] = "new" /\ Goto(t, "idle")
  /\ share' = [share EXCEPT ![t] = Qty]
  /\ \E sl \in BOOLEAN :
       /\ rec' = [rec EXCEPT ![t] = [tracked |-> TRUE, remaining |-> Qty, sl |-> sl]]
       /\ stop' = [stop EXCEPT ![t] = IF sl THEN Qty ELSE 0]
  /\ UNCHANGED <<qty, trouble, result, signals, stale>>

StopFill(t) ==
  /\ StopFills /\ stop[t] > 0
  /\ Sell(t, stop[t]) /\ stop' = [stop EXCEPT ![t] = 0]
  /\ UNCHANGED <<rec, pc, qty, trouble, result, signals, stale>>

Signal(t) ==
  /\ pc[t] = "idle" /\ signals[t] < MaxSignals
  /\ signals' = [signals EXCEPT ![t] = @ + 1]

-----------------------------------------------------------------------------
(* handle_partial_close *)

\* Refused while the quantity is unknown; without a record or with nothing left
\* the signal does nothing.
PartialClose(t) ==
  /\ Signal(t) /\ rec[t].tracked /\ rec[t].remaining # 0
  /\ IF rec[t].remaining = Unknown
     THEN Return(t, "error") /\ UNCHANGED qty
     ELSE /\ Goto(t, "partial") /\ UNCHANGED result
          /\ \E p \in Percent : qty' = [qty EXCEPT ![t] = ToClose(rec[t].remaining, p)]
  /\ UNCHANGED <<rec, share, stop, trouble, stale>>

\* Fault: a market order whose answer is lost counts as refused.
PlacePartialLost(t) ==
  /\ pc[t] = "partial"
  /\ \/ /\ Sell(t, qty[t]) /\ Remaining(t, rec[t].remaining - qty[t])
        /\ IF rec[t].sl THEN Goto(t, "adjust") /\ UNCHANGED result ELSE Return(t, "ok")
     \/ Return(t, "error") /\ SellLost(t, qty[t]) /\ UNCHANGED rec
  /\ UNCHANGED <<stop, qty, trouble, signals, stale>>

\* The market order; the record follows it before the stop is touched.
PlacePartial(t) ==
  /\ pc[t] = "partial"
  /\ \/ /\ Sell(t, qty[t]) /\ Remaining(t, rec[t].remaining - qty[t])
        /\ IF rec[t].sl THEN Goto(t, "adjust") /\ UNCHANGED result ELSE Return(t, "ok")
     \/ Return(t, "error") /\ UNCHANGED <<share, rec>>
     \/ Return(t, "error") /\ SellLost(t, qty[t]) /\ Remaining(t, Unknown)
  /\ UNCHANGED <<stop, qty, trouble, signals, stale>>

\* Fault: a stop that could not be brought in line is only logged.
AdjustStopQuiet(t) ==
  LET n == rec[t].remaining
  IN /\ pc[t] = "adjust" /\ Return(t, "ok")
     /\ \/ StopSet(t, n) /\ rec' = [rec EXCEPT ![t].sl = n > 0]
        \/ StopFails(t, n) /\ UNCHANGED rec
     /\ UNCHANGED <<share, qty, trouble, signals, stale>>

\* The stop is resized to what remains, or retired when nothing does; a failure
\* makes the account a failure of the close.
AdjustStop(t) ==
  LET n == rec[t].remaining
  IN /\ pc[t] = "adjust"
     /\ \/ StopSet(t, n) /\ Return(t, "ok") /\ rec' = [rec EXCEPT ![t].sl = n > 0]
        \/ StopFails(t, n) /\ Return(t, "error") /\ UNCHANGED rec
     /\ UNCHANGED <<share, qty, trouble, signals, stale>>

-----------------------------------------------------------------------------
(* handle_full_close *)

\* A tracked trade of known quantity is closed on its own; without a record or a
\* quantity the contract is flattened.
FullClose(t) ==
  /\ Signal(t)
  /\ Goto(t, IF ~rec[t].tracked \/ rec[t].remaining = Unknown THEN "sweep"
             ELSE IF rec[t].sl THEN "cancel" ELSE "close")
  /\ trouble' = [trouble EXCEPT ![t] = FALSE]
  /\ UNCHANGED <<rec, share, stop, qty, result, stale>>

CancelStop(t) ==
  /\ pc[t] = "cancel" /\ Goto(t, "close")
  /\ \/ StopSet(t, 0) /\ UNCHANGED trouble
     \/ StopFails(t, 0) /\ trouble' = [trouble EXCEPT ![t] = TRUE]
  /\ UNCHANGED <<rec, share, qty, result, signals, stale>>

\* Fault: the stop is cancelled once and not looked at again.
PlaceCloseOnly(t) ==
  LET n == rec[t].remaining
  IN /\ pc[t] = "close"
     /\ \/ Sell(t, n) /\ Return(t, "closed") /\ Untrack(t)
        \/ n > 0 /\ Return(t, "error") /\ UNCHANGED <<share, rec>>
        \/ n > 0 /\ Return(t, "error") /\ SellLost(t, n) /\ Remaining(t, Unknown)
     /\ UNCHANGED <<stop, qty, trouble, signals, stale>>

\* The remaining contracts at market; then, if the stop could not be cancelled,
\* once more.
PlaceClose(t) ==
  LET n == rec[t].remaining
  IN /\ pc[t] = "close"
     /\ \/ /\ Sell(t, n)
           /\ IF trouble[t] THEN Goto(t, "recancel") /\ UNCHANGED <<result, rec>>
              ELSE Return(t, "closed") /\ Untrack(t)
        \/ n > 0 /\ Return(t, "error") /\ UNCHANGED <<share, rec>>
        \/ n > 0 /\ Return(t, "error") /\ SellLost(t, n) /\ Remaining(t, Unknown)
     /\ UNCHANGED <<stop, qty, trouble, signals, stale>>

\* A stop that survives both cancels is an error, and the record stays as it
\* was, the quantity that has just been closed included.
Recancel(t) ==
  /\ pc[t] = "recancel"
  /\ \/ StopSet(t, 0) /\ Return(t, "closed") /\ Untrack(t) /\ UNCHANGED stale
     \/ /\ StopFails(t, 0) /\ Return(t, "error") /\ UNCHANGED rec
        /\ stale' = stale \cup {t}
  /\ UNCHANGED <<share, qty, trouble, signals>>

-----------------------------------------------------------------------------
(* _close_contract: cancel, liquidate, cancel what is left *)

\* Of the contract's stops some are cancelled, the others are errors; so is a
\* list that cannot be read, which cancels nothing.
CancelAll(failed) ==
  stop' \in {[u \in Trade |-> IF u \in live THEN stop[u] ELSE 0] : live \in SUBSET failed}

\* Whatever is done to the contract is done to the other trades on it.
Touches(t) == stale' = stale \cup {u \in Trade \ {t} : pc[u] # "new"}

Sweep(t) ==
  /\ pc[t] = "sweep" /\ Goto(t, "liquidate")
  /\ \E failed \in SUBSET Trade :
       /\ \E unread \in BOOLEAN :
            trouble' = [trouble EXCEPT ![t] = unread \/ \E u \in failed : stop[u] > 0]
       /\ CancelAll(failed)
  /\ Touches(t)
  /\ UNCHANGED <<rec, share, qty, result, signals>>

\* The whole position of the contract goes, whoever it belongs to.
Liquidate(t) ==
  LET flat == [u \in Trade |-> 0]
  IN /\ pc[t] = "liquidate"
     /\ \/ /\ share' = flat
           /\ IF trouble[t] THEN Goto(t, "resweep") /\ UNCHANGED <<result, rec>>
              ELSE Return(t, "flattened") /\ Untrack(t)
        \/ Return(t, "error") /\ share' \in {share, flat} /\ UNCHANGED rec
     /\ Touches(t)
     /\ UNCHANGED <<stop, qty, trouble, signals>>

Resweep(t) ==
  /\ pc[t] = "resweep"
  /\ \/ CancelAll({}) /\ Return(t, "flattened") /\ Untrack(t)
     \/ CancelAll(Trade) /\ Return(t, "error") /\ UNCHANGED rec
  /\ Touches(t)
  /\ UNCHANGED <<share, qty, trouble, signals>>

-----------------------------------------------------------------------------

Handler(t) ==
  \/ PlacePartial(t) \/ AdjustStop(t) \/ CancelStop(t) \/ PlaceClose(t)
  \/ Recancel(t) \/ Sweep(t) \/ Liquidate(t) \/ Resweep(t)
Over == /\ \A t \in Trade : pc[t] = "idle" /\ signals[t] = MaxSignals
        /\ UNCHANGED vars
Next ==
  \/ \E t \in Trade : Enter(t) \/ StopFill(t) \/ PartialClose(t) \/ FullClose(t) \/ Handler(t)
  \/ Over

Spec == Init /\ [][Next]_vars

-----------------------------------------------------------------------------
(* Properties *)

Settled(t) == pc[t] = "idle" /\ t \notin stale

\* A full close of a trade on its own that answers "ok" left the trade flat and
\* without a stop, also when the stop filled, a cancel failed or an answer was
\* lost on the way.
ClosedMeansFlat ==
  \A t \in Trade : Settled(t) /\ result[t] = "closed" => share[t] = 0 /\ stop[t] = 0

\* After any closes that did not end in an error, the record tells the truth:
\* the position and its stop are the remaining contracts, or the stop filled and
\* the trade is flat.
RecordMatches ==
  \A t \in Trade :
    Settled(t) /\ rec[t].tracked /\ result[t] \in {"none", "ok"} =>
      \/ share[t] = rec[t].remaining /\ stop[t] = (IF rec[t].sl THEN rec[t].remaining ELSE 0)
      \/ rec[t].sl /\ share[t] = 0 /\ stop[t] = 0

\* A trade never ends up on the other side of the market, nor in the market with
\* its stop gone, without its last close having been reported as an error.  The
\* fallback is excepted: a stop it could not cancel may fire between liquidation
\* and second cancel (common.py:423) and is then not listed any more.
HarmIsReported ==
  \A t \in Trade :
    Settled(t) /\ result[t] # "flattened" /\ (share[t] < 0 \/ (share[t] > 0 /\ rec[t].sl /\ stop[t] = 0))
      => result[t] = "error"

\* ts_hunter.py:244-245: "a retry with the same quantity could open the opposite
\* position, so the next full_close flattens what the broker shows".
RetryNeverReverses == \A t \in Trade : share[t] >= 0
=============================================================================
