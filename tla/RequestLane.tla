----------------------------- MODULE RequestLane -----------------------------
(***************************************************************************)
(* The pacing of one login's requests (app/tradovate.py, _request_paced):  *)
(* orders, cancels, liquidations and the reads of a close go through the   *)
(* order lane, with a token bucket; everything else through the poll lane, *)
(* with a fixed spacing.  A lane is an asyncio.Lock, which its waiters get *)
(* in the order they came, held over the sleep.  A 429 of either lane sets *)
(* a penalty both look at.                                                 *)
(*                                                                         *)
(* Time is counted in ticks; it passes only when no lane has anything to   *)
(* do (a timer of the event loop is not late).  The broker answers when it *)
(* likes.  One token is Spacing ticks.                                     *)
(***************************************************************************)
EXTENDS Integers, Sequences, FiniteSets, SequencesExt

CONSTANTS
    Urgent,       \* requests of the order lane
    Poll,         \* requests of the poll lane
    Burst,        \* ORDER_BURST
    Spacing,      \* PRIORITY_SPACING_S
    PollSpacing,  \* REQUEST_SPACING_S
    Patience,     \* PRIORITY_PENALTY_WAIT_S
    Penalty,      \* retry_after of a 429 (_penalty_seconds)
    MaxClock      \* bound

Request == Urgent \cup Poll
Lane == {"order", "poll"}
LaneOf(r) == IF r \in Urgent THEN "order" ELSE "poll"

VARIABLES
    clock,
    penalty,      \* penalty_until
    credit,       \* _order_tokens, in ticks
    lastUrgent,   \* _last_prio
    lastPoll,     \* _last_sent
    queue,        \* lane -> the requests at its lock, its holder first
    phase,        \* request -> where it is
    wake,         \* request -> when its sleep ends
    due,          \* history: urgent request -> by when it is to be sent or refused
    gone,         \* history: request -> when it left, 0 if it did not
    leaks         \* history: lane -> requests that left inside the penalty since its 429

vars == <<clock, penalty, credit, lastUrgent, lastPoll, queue, phase, wake, due, gone, leaks>>

Full == Burst * Spacing

TypeOK ==
    /\ clock \in 1 .. MaxClock
    /\ penalty \in Nat /\ credit \in 0 .. Full
    /\ lastUrgent \in 0 .. MaxClock /\ lastPoll \in -PollSpacing .. MaxClock
    /\ \A l \in Lane : queue[l] \in Seq(Request)
    /\ phase \in [Request -> {"idle", "queued", "asleep", "sent", "over"}]
    /\ wake \in [Request -> Nat] /\ due \in [Urgent -> Nat]
    /\ gone \in [Request -> 0 .. MaxClock]
    /\ leaks \in [Lane -> Nat]
    \* only the lock's holder sleeps
    /\ \A r \in Request : phase[r] = "asleep" => r = Head(queue[LaneOf(r)])

Init ==
    /\ clock = 1 /\ penalty = 0 /\ credit = Full
    /\ lastUrgent = 0 /\ lastPoll = -PollSpacing
    /\ queue = [l \in Lane |-> <<>>]
    /\ phase = [r \in Request |-> "idle"]
    /\ wake = [r \in Request |-> 0]
    /\ due = [r \in Urgent |-> 0]
    /\ gone = [r \in Request |-> 0]
    /\ leaks = [l \in Lane |-> 0]

Holder(r) == queue[LaneOf(r)] # <<>> /\ r = Head(queue[LaneOf(r)])
Larger(a, b) == IF a > b THEN a ELSE b
Smaller(a, b) == IF a < b THEN a ELSE b

\* A caller asks for a request: it goes to the end of its lane.
Ask(r) ==
    /\ phase[r] = "idle"
    /\ phase' = [phase EXCEPT ![r] = "queued"]
    /\ queue' = [queue EXCEPT ![LaneOf(r)] = Append(@, r)]
    /\ due' = IF r \in Urgent
                THEN [due EXCEPT ![r] = clock + (Len(queue["order"]) + 1) * Larger(Patience, Spacing)]
                ELSE due
    /\ UNCHANGED <<clock, penalty, credit, lastUrgent, lastPoll, wake, gone, leaks>>

\* r leaves for the broker and its lane is free for the next.
Leave(r) ==
    /\ phase' = [phase EXCEPT ![r] = "sent"]
    /\ queue' = [queue EXCEPT ![LaneOf(r)] = Tail(@)]
    /\ gone' = [gone EXCEPT ![r] = clock]
    /\ leaks' = [leaks EXCEPT ![LaneOf(r)] = IF clock < penalty THEN @ + 1 ELSE @]
    /\ wake' = [wake EXCEPT ![r] = 0]

\* r sleeps with the lock held.
Sleep(r, n) ==
    /\ phase' = [phase EXCEPT ![r] = "asleep"]
    /\ wake' = [wake EXCEPT ![r] = clock + n]
    /\ UNCHANGED <<queue, gone, leaks>>

Refill == Smaller(Full, credit + clock - lastUrgent)

\* Fault: the time of the last refill is not kept.
TakeTokenForgetful ==
    /\ credit' = IF Refill >= Spacing THEN Refill - Spacing ELSE Refill
    /\ UNCHANGED lastUrgent

\* _take_order_token: refill, then spend a token if there is one.
TakeToken ==
    /\ lastUrgent' = clock
    /\ credit' = IF Refill >= Spacing THEN Refill - Spacing ELSE Refill

\* Fault: the order waits every penalty out.
UrgentPassPatient(r) ==
    LET left == penalty - clock
        wait == Larger(left, IF Refill >= Spacing THEN 0 ELSE Spacing - Refill)
    IN /\ TakeToken
       /\ IF wait > 0 THEN Sleep(r, wait) ELSE Leave(r)

\* Fault: an order does not look at the penalty.
UrgentPassBlind(r) ==
    /\ TakeToken
    /\ IF Refill >= Spacing THEN Leave(r) ELSE Sleep(r, Spacing - Refill)

\* An urgent request that has the lock: refused in a long penalty, else sent, at
\* once or after a short penalty or the wait for a token.
UrgentPass(r) ==
    LET left == penalty - clock
        wait == Larger(left, IF Refill >= Spacing THEN 0 ELSE Spacing - Refill)
    IN IF left > Patience
         THEN /\ phase' = [phase EXCEPT ![r] = "over"]
              /\ queue' = [queue EXCEPT !["order"] = Tail(@)]
              /\ UNCHANGED <<credit, lastUrgent, wake, gone, leaks>>
         ELSE /\ TakeToken
              /\ IF wait > 0 THEN Sleep(r, wait) ELSE Leave(r)

\* A poll that has the lock waits for the penalty and the spacing.
PollPass(r) ==
    LET wait == Larger(penalty - clock, lastPoll + PollSpacing - clock)
    IN IF wait > 0 THEN Sleep(r, wait) /\ UNCHANGED lastPoll
                   ELSE Leave(r) /\ lastPoll' = clock

Pass(r) ==
    /\ phase[r] = "queued" /\ Holder(r)
    /\ IF r \in Urgent THEN UrgentPass(r) /\ UNCHANGED lastPoll
                       ELSE PollPass(r) /\ UNCHANGED <<credit, lastUrgent>>
    /\ UNCHANGED <<clock, penalty, due>>

\* The sleep is over; an order accounts for the token it slept for, or for one
\* more when it slept for a penalty.
Awake(r) ==
    /\ phase[r] = "asleep" /\ clock >= wake[r]
    /\ Leave(r)
    /\ IF r \in Urgent THEN TakeToken /\ UNCHANGED lastPoll
                       ELSE lastPoll' = clock /\ UNCHANGED <<credit, lastUrgent>>
    /\ UNCHANGED <<clock, penalty, due>>

\* The caller is cancelled at the lock or in its sleep: the lock goes on, a
\* token it had spent is spent.
Cancel(r) ==
    /\ phase[r] \in {"queued", "asleep"}
    /\ phase' = [phase EXCEPT ![r] = "over"]
    /\ \E i \in 1 .. Len(queue[LaneOf(r)]) :
         queue[LaneOf(r)][i] = r /\ queue' = [queue EXCEPT ![LaneOf(r)] = RemoveAt(@, i)]
    /\ UNCHANGED <<clock, penalty, credit, lastUrgent, lastPoll, wake, due, gone, leaks>>

Answered(r) ==
    /\ phase[r] = "sent"
    /\ phase' = [phase EXCEPT ![r] = "over"]
    /\ UNCHANGED <<clock, penalty, credit, lastUrgent, lastPoll, queue, wake, due, gone, leaks>>

\* A 429: its penalty replaces the one that runs.
Limited(r, seconds) ==
    /\ phase[r] = "sent"
    /\ phase' = [phase EXCEPT ![r] = "over"]
    /\ penalty' = clock + seconds
    /\ leaks' = [l \in Lane |-> 0]
    /\ UNCHANGED <<clock, credit, lastUrgent, lastPoll, queue, wake, due, gone>>

Ready(r) == Holder(r) /\ (phase[r] = "asleep" => clock >= wake[r])

Tick ==
    /\ clock < MaxClock
    /\ \A r \in Request : ~Ready(r)
    /\ clock' = clock + 1
    /\ UNCHANGED <<penalty, credit, lastUrgent, lastPoll, queue, phase, wake, due, gone, leaks>>

Next ==
    \/ \E r \in Request : Ask(r) \/ Pass(r) \/ Awake(r) \/ Cancel(r) \/ Answered(r)
                            \/ \E seconds \in Penalty : Limited(r, seconds)
    \/ Tick

Spec == Init /\ [][Next]_vars
------------------------------------------------------------------------------
(* Properties                                                              *)

\* "Never a minute late" (tradovate.py:348): an order is sent or refused after
\* at most Patience for itself and for each order that was ahead of it, however
\* 429s follow each other while the lane's lock is held over a sleep.
OrdersPrompt == \A r \in Urgent : phase[r] \in {"queued", "asleep"} => clock <= due[r]

\* The sustained rate: any stretch of time sees at most a burst of orders, one
\* more per spacing, and one that had its token before it slept for a penalty.
OrdersPaced ==
    \A s, t \in 1 .. clock : s <= t =>
        Cardinality({r \in Urgent : gone[r] \in s .. t}) <= Burst + 1 + (t - s) \div Spacing

\* "Nothing while a 429 penalty is running", but for one request per lane that
\* had looked before the 429 came.
PenaltyHeld == \A l \in Lane : leaks[l] <= 1
==============================================================================
