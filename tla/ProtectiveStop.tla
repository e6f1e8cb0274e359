--------------------------- MODULE ProtectiveStop ---------------------------
(***************************************************************************)
(* One bracket entry on one account: place_for in app/engine/bracket.py    *)
(* with _place_stop_with_retry, _close_after_failed_stop and               *)
(* _cancel_working of app/engine/common.py, against the broker.  (A        *)
(* TS-Hunter entry is the same handler with no targets.)                   *)
(*                                                                         *)
(* The entry is placed, then the stop and the take-profits together.  A    *)
(* stop refused twice, or whose outcome is unknown, is resolved: cancel    *)
(* what may be working, close the entry at market, and report what could   *)
(* not be undone, unless nothing had filled.  The broker refuses, accepts or loses the answer of each *)
(* request, and may fill resting orders at any time.  The setting          *)
(* entry_order_type decides whether the entry is a market or a limit one.  *)
(*                                                                         *)
(* Quantities are in the direction of the entry: net > 0 is the entry's    *)
(* side, net < 0 a reversed position.  A request whose answer is lost has  *)
(* reached the broker or never will (it does not arrive later).            *)
(***************************************************************************)
EXTENDS Integers, FiniteSetsExt

CONSTANTS Qty,          \* contracts of the entry
          TpQty,        \* contracts of one take-profit
          Targets       \* number of take-profits in the signal (0..3)

\* what the constants satisfy
QtyAssumption == Qty \in Nat \ {0} /\ TpQty \in Nat \ {0} /\ Targets \in Nat

Least(a, b) == IF a < b THEN a ELSE b

\* The take-profit slices: together never more than the entry.
Slice(n) == LET before == (n - 1) * Least(TpQty, Qty)
            IN IF before >= Qty THEN 0 ELSE Least(Least(TpQty, Qty), Qty - before)
Target == {<<"tp", n>> : n \in {i \in 1..Targets : Slice(i) > 0}}
Stop == {<<"stop", 1>>, <<"stop", 2>>}         \* the attempts, same size and price
Entry == <<"entry", 0>>
Order == {Entry} \cup Stop \cup Target
Size(o) == IF o \in Target THEN Slice(o[2]) ELSE Qty

VARIABLES limit,    \* the entry is a limit order, which rests until it fills
          pc,       \* where the handler stands
          status,   \* Order -> its state at the broker
          answer,   \* Order -> what the bridge was told
          net,      \* position at the broker, in the entry's direction
          entered,  \* contracts of the entry that filled
          targeted, \* orders the resolution still has to cancel
          left,     \* errors: orders whose cancel failed
          blind,    \* reads that failed: the order list, the position, the contract's id
          closing   \* contracts the resolution closes at market

vars == <<limit, pc, status, answer, net, entered, targeted, left, blind, closing>>

Ended == {"refused", "tracked", "failed", "unprotected"}
TypeOK ==
  /\ limit \in BOOLEAN
  /\ pc \in {"entry", "bracket", "retry", "list", "cancel", "read", "close", "again"} \cup Ended
  /\ status \in [Order -> {"none", "working", "filled", "gone"}]
  /\ answer \in [Order -> {"none", "ok", "refused", "unknown"}]
  /\ net \in Int /\ entered \in 0..Qty /\ closing \in 0..Qty
  /\ targeted \subseteq Order /\ left \subseteq Order
  /\ blind \subseteq {"orders", "positions", "id"}

Init ==
  /\ limit \in BOOLEAN
  /\ pc = "entry"
  /\ status = [o \in Order |-> "none"] /\ answer = [o \in Order |-> "none"]
  /\ net = 0 /\ entered = 0 /\ closing = 0
  /\ targeted = {} /\ left = {} /\ blind = {}

-----------------------------------------------------------------------------
(* The broker *)

\* One request and its answer: acknowledged, refused (a 429 included), or lost,
\* in which case the order works or not.
Place(o) ==
  \/ /\ status' = [status EXCEPT ![o] = "working"]
     /\ answer' = [answer EXCEPT ![o] = "ok"]
  \/ /\ answer' = [answer EXCEPT ![o] = "refused"] /\ UNCHANGED status
  \/ /\ answer' = [answer EXCEPT ![o] = "unknown"]
     /\ status' \in {status, [status EXCEPT ![o] = "working"]}

\* A resting entry fills, in one go or in parts.
EntryFills ==
  /\ status[Entry] = "working"
  /\ \E f \in (entered + 1)..Qty :
       /\ entered' = f /\ net' = net + (f - entered)
       /\ status' = [status EXCEPT ![Entry] = IF f = Qty THEN "filled" ELSE "working"]
  /\ UNCHANGED <<limit, pc, answer, targeted, left, blind, closing>>

\* A stop or a target fills.
ExitFills ==
  /\ \E o \in Stop \cup Target :
       /\ status[o] = "working"
       /\ status' = [status EXCEPT ![o] = "filled"]
       /\ net' = net - Size(o)
  /\ UNCHANGED <<limit, pc, answer, entered, targeted, left, blind, closing>>

-----------------------------------------------------------------------------
(* The handler *)

\* A market entry fills when the broker takes it, a limit entry rests.
EntryTaken ==
  IF limit
  THEN status' = [status EXCEPT ![Entry] = "working"] /\ UNCHANGED <<net, entered>>
  ELSE status' = [status EXCEPT ![Entry] = "filled"] /\ net' = Qty /\ entered' = Qty

\* bracket.place_for, 1): a refused entry drops the account from the trade, and
\* so does one whose answer is lost, though it may be live.
PlaceEntry ==
  /\ pc = "entry"
  /\ \/ answer' = [answer EXCEPT ![Entry] = "ok"] /\ pc' = "bracket" /\ EntryTaken
     \/ /\ answer' = [answer EXCEPT ![Entry] = "refused"]
        /\ pc' = "refused" /\ UNCHANGED <<status, net, entered>>
     \/ /\ answer' = [answer EXCEPT ![Entry] = "unknown"] /\ pc' = "refused"
        /\ \/ UNCHANGED <<status, net, entered>>
           \/ EntryTaken
  /\ UNCHANGED <<limit, targeted, left, blind, closing>>

\* 2): the first stop and the targets leave together, each answered on its own.
PlaceBracket(o) ==
  /\ pc = "bracket" /\ o \in Target \cup {<<"stop", 1>>}
  /\ answer[o] = "none"
  /\ Place(o)
  /\ UNCHANGED <<limit, pc, net, entered, targeted, left, blind, closing>>

\* Fault: a stop whose answer was lost is placed once more.
BracketAnsweredRetries ==
  /\ pc = "bracket"
  /\ \A o \in Target \cup {<<"stop", 1>>} : answer[o] # "none"
  /\ pc' = IF answer[<<"stop", 1>>] = "ok" THEN "tracked" ELSE "retry"
  /\ UNCHANGED <<limit, status, answer, net, entered, targeted, left, blind, closing>>

\* Fault: the entry is tracked whatever became of its stop.
BracketAnsweredTracks ==
  /\ pc = "bracket"
  /\ \A o \in Target \cup {<<"stop", 1>>} : answer[o] # "none"
  /\ pc' = "tracked"
  /\ UNCHANGED <<limit, status, answer, net, entered, targeted, left, blind, closing>>

\* Once all are answered: track, try the stop again after a confirmed refusal
\* (a 429 penalty is slept out first), or resolve an unknown outcome.
BracketAnswered ==
  /\ pc = "bracket"
  /\ \A o \in Target \cup {<<"stop", 1>>} : answer[o] # "none"
  /\ pc' = CASE answer[<<"stop", 1>>] = "ok" -> "tracked"
             [] answer[<<"stop", 1>>] = "refused" -> "retry"
             [] OTHER -> "list"
  /\ UNCHANGED <<limit, status, answer, net, entered, targeted, left, blind, closing>>

\* Fault: the targets are not cancelled.
KnownForgetsTargets == IF limit THEN {Entry} ELSE {}

\* _close_after_failed_stop after a confirmed refusal: the ids the bridge knows.
Known == {o \in Target : answer[o] = "ok"} \cup (IF limit THEN {Entry} ELSE {})

RetryStop ==
  /\ pc = "retry"
  /\ Place(<<"stop", 2>>)
  /\ CASE answer'[<<"stop", 2>>] = "ok" -> pc' = "tracked" /\ UNCHANGED targeted
       [] answer'[<<"stop", 2>>] = "refused" -> pc' = "cancel" /\ targeted' = Known
       [] OTHER -> pc' = "list" /\ UNCHANGED targeted
  /\ UNCHANGED <<limit, net, entered, left, blind, closing>>

\* _cancel_working after an unknown stop: every working order of the contract,
\* as far as the order list can be read and the contract's id is known.
ListOrders ==
  /\ pc = "list" /\ pc' = "cancel"
  /\ \/ targeted' = {o \in Order : status[o] = "working"} /\ UNCHANGED blind
     \/ targeted' = {} /\ blind' = blind \cup {"orders"}
     \/ targeted' = {} /\ blind' = blind \cup {"id"}
  /\ UNCHANGED <<limit, status, answer, net, entered, left, closing>>

\* One of the cancels in flight: done, or failed and noted among the errors; a failed
\* one may have reached the broker all the same.
CancelOrder(o) ==
  /\ pc = "cancel" /\ o \in targeted
  /\ targeted' = targeted \ {o}
  /\ LET gone == IF status[o] = "working" THEN [status EXCEPT ![o] = "gone"] ELSE status
     IN \/ status[o] = "working" /\ status' = gone /\ UNCHANGED left
        \/ status' \in {status, gone} /\ left' = left \cup {o}
  /\ UNCHANGED <<limit, pc, answer, net, entered, blind, closing>>

\* Fault: the whole entry is closed whether it filled or not.
CancelsDoneBlind ==
  /\ pc = "cancel" /\ targeted = {} /\ pc' = "close" /\ closing' = Qty
  /\ UNCHANGED <<limit, status, answer, net, entered, targeted, left, blind>>

CancelsDone ==
  /\ pc = "cancel" /\ targeted = {}
  /\ IF limit THEN pc' = "read" /\ UNCHANGED closing
                   ELSE pc' = "close" /\ closing' = Qty
  /\ UNCHANGED <<limit, status, answer, net, entered, targeted, left, blind>>

\* Fault: a position of the other side is not recognised.
ReadPositionSigned ==
  /\ pc = "read"
  /\ \/ closing' = Least(Qty, net) /\ UNCHANGED blind
     \/ closing' = Qty /\ blind' = blind \cup {"positions"}
  /\ pc' = IF closing' = 0 THEN "failed" ELSE "close"
  /\ UNCHANGED <<limit, status, answer, net, entered, targeted, left>>

\* A limit entry: close only what filled; unreadable counts as filled.  With nothing to
\* close the handler ends, and what it says does not name the errors (see Told).
ReadPosition ==
  /\ pc = "read"
  /\ \/ closing' = Least(Qty, IF net > 0 THEN net ELSE 0) /\ UNCHANGED blind
     \/ closing' = Qty /\ blind' = blind \cup {"positions"}
  /\ pc' = IF closing' = 0 THEN "failed" ELSE "close"
  /\ UNCHANGED <<limit, status, answer, net, entered, targeted, left>>

\* Fault: a close that fails is swallowed.
CloseEntryGivesUp ==
  /\ pc \in {"close", "again"}
  /\ \/ net' = net - closing /\ pc' = "failed"
     \/ pc = "close" /\ pc' = "again" /\ UNCHANGED net
     \/ pc' = "failed" /\ net' \in {net, net - closing}
  /\ UNCHANGED <<limit, status, answer, entered, targeted, left, blind, closing>>

\* Fault: every penalty is waited out.
CloseEntryForever ==
  /\ pc \in {"close", "again"}
  /\ \/ net' = net - closing /\ pc' = "failed"
     \/ pc' = (IF pc = "close" THEN "again" ELSE "close") /\ UNCHANGED net
     \/ pc' = "unprotected" /\ net' \in {net, net - closing}
  /\ UNCHANGED <<limit, status, answer, entered, targeted, left, blind, closing>>

\* The market order that closes the entry again; a 429 is waited out once.
CloseEntry ==
  /\ pc \in {"close", "again"}
  /\ \/ net' = net - closing /\ pc' = "failed"
     \/ pc = "close" /\ pc' = "again" /\ UNCHANGED net
     \/ pc' = "unprotected" /\ net' \in {net, net - closing}
  /\ UNCHANGED <<limit, status, answer, entered, targeted, left, blind, closing>>

\* What the alert and the answer of the end name as "could not be cancelled": the errors
\* once something was closed (common.py:401), none of them when nothing had filled ("the
\* unfilled entry was cancelled", :382) or when the close failed too (:396).
Told == IF pc = "failed" /\ closing > 0 THEN left ELSE {}
ListTold == pc = "failed" /\ closing > 0 /\ "orders" \in blind

-----------------------------------------------------------------------------

Handler ==
  \/ PlaceEntry \/ BracketAnswered \/ RetryStop \/ ListOrders \/ CancelsDone
  \/ ReadPosition \/ CloseEntry
  \/ \E o \in Order : PlaceBracket(o) \/ CancelOrder(o)

Finished == pc \in Ended /\ UNCHANGED vars
Next == Handler \/ EntryFills \/ ExitFills \/ Finished
Spec == Init /\ [][Next]_vars

\* Every broker call ends, by answer or timeout; fills are not promised.
FairSpec == Spec /\ WF_vars(Handler)

-----------------------------------------------------------------------------
(* Properties *)

Working(o) == status[o] = "working"

\* common.py:308-310: the retry never puts a second full-size stop beside one
\* that may have reached the broker.
OneStop == ~(status[<<"stop", 1>>] \in {"working", "filled"}
             /\ status[<<"stop", 2>>] \in {"working", "filled"})

\* A trade tracked as protected has, under the id in its record, a stop that
\* covers the whole entry or has already closed it.
TrackedIsProtected ==
  pc = "tracked" =>
    \E o \in Stop : status[o] \in {"working", "filled"} /\ answer[o] = "ok"

\* Contracts that stops and targets of this entry have closed.
Struck == MapThenSumSet(Size, {o \in Stop \cup Target : status[o] = "filled"})

\* After a failed stop nothing of the entry is left, and the close sold no more
\* than the entry: what is short is what its own exits sold meanwhile.  Excepted
\* is an entry whose state the handler could not read or cancel.
FailedClosesEntry ==
  pc = "failed" /\ blind = {} /\ Entry \notin left => net \in (-Struck)..0

\* StopFailed, common.py:288-291: "the entry was closed again at market: the
\* account holds nothing of this trade", said without any reservation.
FailedMeansFlat == pc = "failed" /\ blind = {} /\ left = {} => net = 0

\* An order of the entry that outlives its resolution is one whose cancel failed, one that
\* was not found (the list was not read, or the contract's id), or a target alerted to when
\* its answer was lost.  Where something was closed the operator reads of the first two,
\* save the missing id; where nothing had filled he reads of none.
SurvivorsHaveCause ==
  pc = "failed" =>
    \A o \in Order : Working(o) =>
      \/ o \in Told \/ ListTold \/ (o \in Target /\ answer[o] = "unknown")
      \/ "id" \in blind
      \/ closing = 0 /\ limit /\ (o \in left \/ "orders" \in blind)

\* A position is left without a stop only when the operator is alerted to it (unprotected),
\* when its entry was told as rejected for want of an answer, or when a limit entry outlived
\* its resolution and filled after it: told with the close, untold when nothing had filled
\* or the contract's id was missing.
NakedHasCause ==
  pc \in Ended /\ net > 0 /\ (\A o \in Stop : ~Working(o)) =>
    \/ pc = "unprotected" \/ answer[Entry] = "unknown"
    \/ /\ limit /\ pc = "failed"
       /\ \/ Entry \in Told \/ ListTold \/ "id" \in blind
          \/ closing = 0 /\ (Entry \in left \/ "orders" \in blind)

\* Not so: "Only when that close fails too does the position stay live: reported at error
\* level and on every alert channel" (common.py:301).  With nothing filled a limit entry
\* whose cancel failed is told as cancelled, and may fill.
NakedIsReported ==
  pc = "failed" /\ net > 0 => Entry \in Told \/ ListTold

\* Every entry ends, in one of the four ways.
EntryEnds == <>(pc \in Ended)
=============================================================================
