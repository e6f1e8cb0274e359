---------------------------- MODULE CopyPositions ----------------------------
(***************************************************************************)
(* The position mirror of a copy group (app/copy/group_runner.py): one     *)
(* contract, one follower whose target is the leader's own size. The       *)
(* leader's socket and a REST poll both report its position; every change  *)
(* becomes a market order under the follower's lock. A reconcile corrects  *)
(* drift, the user or the feed-loss watchdog flattens, the user syncs, and *)
(* the runner is restarted. The group mirrors no orders (CopyOrders does). *)
(***************************************************************************)
EXTENDS Integers, Sequences, FiniteSets, SequencesExt

CONSTANTS
    MaxSize,       \* bound: the leader's position is 0 .. MaxSize
    MaxEvents      \* bound: changes of the leader's position, failures (orders
                   \* refused or unanswered, failing reads) and commands (flatten,
                   \* sync, restart, changes of the socket) together

\* what the constants satisfy
CopyPositionsAssumption ==
    /\ MaxSize \in Nat \ {0}
    /\ MaxEvents \in Nat

VARIABLES
    lead,      \* the leader's position at its broker
    moves,     \* how often it changed
    peak,      \* the largest it ever was
    events,    \* the socket's position events on their way
    wsok,      \* the socket is synced
    look,      \* the positions a poll has read and not yet worked with
    pending,   \* _pending_poll: what one poll alone has seen
    net,       \* leader_net; Nothing if the contract is not in it
    baseline, paused,
    memory,    \* follower_pos: <<n>>, or Unknown if the contract is not in it
    pos,       \* the follower's position
    shown,     \* the same as the broker's position list shows it
    lag,       \* whether the list may be behind accepted orders
    lost,      \* whether an order was executed although its answer was lost
    settling,  \* an order went out within ORDER_SETTLE_S, or failed within REJECT_HOLDOFF_S
    job,       \* what each task is doing
    lockq,     \* tasks holding (first) and waiting for the follower's lock
    saved,     \* copy_state, the database's row of the contract
    flattened, \* whether the mirror was flattened, ever
    unresolved,\* flatten_unresolved
    faults, commands,
    restarted, \* whether the runner was restarted, ever
    up

leaderVars == <<lead, moves, peak>>
feedVars == <<events, wsok, look, pending>>
brokerVars == <<pos, shown, lag, lost>>
boundVars == <<faults, commands, restarted>>
vars == <<leaderVars, feedVars, net, baseline, paused, memory, brokerVars, settling, job,
          lockq, saved, flattened, unresolved, boundVars, up>>

Size == 0 .. MaxSize
Unknown == <<>>
Nothing == -1
Task == {"socket", "poll", "reconcile", "sync", "flatten"}
Stage == {"none", "named", "listed", "waiting", "checking", "reading", "sent", "closing", "closed", "verify"}
Done == [stage |-> "none", want |-> 0, have |-> 0, result |-> "none"]

TypeOK ==
    /\ lead \in Size /\ moves \in 0 .. MaxEvents /\ peak \in Size
    /\ events \in Seq(Size) /\ Len(events) <= MaxEvents
    /\ wsok \in BOOLEAN
    /\ look \in {<<>>} \cup {<<n>> : n \in Size}
    /\ pending \in Size \cup {Nothing}
    /\ net \in Size \cup {Nothing}
    /\ baseline \in BOOLEAN /\ paused \in BOOLEAN
    /\ memory \in Seq(Int) /\ Len(memory) <= 1
    /\ pos \in Int /\ shown \in Int /\ lag \in BOOLEAN /\ lost \in BOOLEAN
    /\ settling \in {"no", "sent", "failed"}
    /\ job \in [Task -> [stage : Stage, want : Size, have : Int,
                         result : {"none", "taken", "failed"}]]
    /\ lockq \in Seq(Task) /\ IsInjective(lockq)
    /\ saved \in Size
    /\ flattened \in BOOLEAN /\ unresolved \in BOOLEAN
    /\ faults \in 0 .. MaxEvents /\ restarted \in BOOLEAN /\ commands \in 0 .. MaxEvents
    /\ up \in BOOLEAN
    \* the lock is held by the task that works under it
    /\ \A t \in Task : job[t].stage \in {"reading", "sent", "closed"} =>
                            lockq # <<>> /\ lockq[1] = t

\* The leader may hold a position when the group is first enabled; it is not
\* copied (_seed_leader).
Init ==
    /\ lead \in {0, 1} /\ moves = 0 /\ peak = lead
    /\ events = <<>> /\ wsok \in BOOLEAN /\ look = <<>> /\ pending = Nothing
    /\ net = (IF lead > 0 THEN lead ELSE Nothing) /\ baseline = (lead > 0) /\ paused = FALSE
    /\ memory = Unknown /\ pos = 0 /\ shown = 0 /\ lag \in BOOLEAN /\ lost = FALSE
    /\ settling = "no"
    /\ job = [t \in Task |-> Done]
    /\ lockq = <<>>
    /\ saved = 0
    /\ flattened = FALSE /\ unresolved = FALSE
    /\ faults = 0 /\ commands = 0 /\ restarted = FALSE
    /\ up = TRUE

Max2(a, b) == IF a > b THEN a ELSE b
Net == IF net = Nothing THEN 0 ELSE net
Idle(t) == job[t].stage = "none"
Holds(t) == lockq # <<>> /\ lockq[1] = t
Within == moves + faults + commands < MaxEvents
Fault == Within /\ faults' = faults + 1
Command == Within /\ commands' = commands + 1
At(t, stage) == job' = [job EXCEPT ![t].stage = stage]
Finished(t) == [job EXCEPT ![t] = Done]

\* _persist: an open mirrored position is remembered, anything else is not.
Persist(n, isBaseline) == saved' = IF isBaseline THEN 0 ELSE n

-----------------------------------------------------------------------------
(* The leader, its feed and the two tasks that read it                     *)

LeaderMoves ==
    /\ Within
    /\ \E n \in Size \ {lead} :
        /\ lead' = n
        /\ peak' = Max2(peak, n)
        /\ events' = IF up /\ wsok THEN Append(events, n) ELSE events
    /\ moves' = moves + 1
    /\ UNCHANGED <<wsok, look, pending, net, baseline, paused, memory, brokerVars, settling,
                   job, lockq, saved, flattened, unresolved, boundVars, up>>

\* The socket drops: what was on its way is lost, the poll remains.
SocketDrops ==
    /\ up /\ wsok /\ Command
    /\ Idle("socket")
    /\ wsok' = FALSE
    /\ events' = <<>>
    /\ UNCHANGED <<leaderVars, look, pending, net, baseline, paused, memory, brokerVars,
                   settling, job, lockq, saved, flattened, unresolved, faults, restarted, up>>

\* _on_position: the change is claimed before any await, then the contract's
\* name is asked for.
Claim(t, n) ==
    /\ net' = IF n = Net THEN net ELSE n
    /\ job' = [job EXCEPT ![t] = [Done EXCEPT !.stage = IF n = Net THEN "none" ELSE "named",
                                              !.want = n]]

\* The socket is back: its snapshot comes before its events (and is not seen
\* as a baseline).
SocketSyncs ==
    /\ up /\ ~wsok /\ Command
    /\ Idle("socket")
    /\ wsok' = TRUE
    /\ Claim("socket", lead)
    /\ UNCHANGED <<leaderVars, events, look, pending, baseline, paused, memory, brokerVars,
                   settling, lockq, saved, flattened, unresolved, faults, restarted, up>>

OnWsMessage ==
    /\ up /\ wsok /\ events # <<>>
    /\ Idle("socket")
    /\ Claim("socket", Head(events))
    /\ events' = Tail(events)
    /\ UNCHANGED <<leaderVars, wsok, look, pending, baseline, paused, memory, brokerVars,
                   settling, lockq, saved, flattened, unresolved, boundVars, up>>

\* _poll_once reads the list; what it says may be old when it is worked with.
PollReads ==
    /\ up /\ look = <<>>
    /\ Idle("poll")
    /\ look' = <<lead>>
    /\ UNCHANGED <<leaderVars, events, wsok, pending, net, baseline, paused, memory, brokerVars,
                   settling, job, lockq, saved, flattened, unresolved, boundVars, up>>

\* While the socket is synced only what two polls have seen is acted on.
PollConfirmed(n) == ~wsok \/ pending = n

PollWorks ==
    /\ up /\ look # <<>>
    /\ LET n == look[1] IN
        IF n = Net THEN pending' = Nothing /\ UNCHANGED <<net, job>>
        ELSE IF PollConfirmed(n) THEN pending' = Nothing /\ Claim("poll", n)
        ELSE pending' = n /\ UNCHANGED <<net, job>>
    /\ look' = <<>>
    /\ UNCHANGED <<leaderVars, events, wsok, baseline, paused, memory, brokerVars, settling,
                   lockq, saved, flattened, unresolved, boundVars, up>>

\* Fault: a baseline contract is mirrored.
NotPaused == ~paused

\* A baseline contract is not mirrored, and nothing while paused (nor a contract
\* that is filtered out, or when the trading switch is off).
Mirrored == ~baseline /\ ~paused

\* The rest of _on_position: what is mirrored joins the queue for the follower's
\* lock.
OnPosition(t) ==
    /\ t \in {"socket", "poll"}
    /\ job[t].stage = "named"
    /\ baseline' = (baseline /\ job[t].want # 0)
    /\ IF ~Mirrored
         THEN job' = Finished(t) /\ UNCHANGED <<lockq, saved>>
         ELSE /\ Persist(job[t].want, FALSE)
              /\ At(t, "waiting")
              /\ lockq' = Append(lockq, t)
    /\ UNCHANGED <<leaderVars, feedVars, net, paused, memory, brokerVars, settling,
                   flattened, unresolved, boundVars, up>>

-----------------------------------------------------------------------------
(* _mirror_follower, under the lock                                        *)

\* place_order: the broker takes the order or not, and its answer says so or
\* is lost. A position list without lag shows it at once.
PlaceOrder(t, delta, next) ==
    /\ \/ /\ job' = [next EXCEPT ![t].result = "taken"]
          /\ pos' = pos + delta
          /\ UNCHANGED <<faults, lost>>
       \/ /\ job' = [next EXCEPT ![t].result = "failed"]
          /\ \/ UNCHANGED <<pos, lost>>
             \/ pos' = pos + delta /\ lost' = TRUE
          /\ Fault
    /\ shown' = IF lag THEN shown ELSE pos'

\* Fault: the lock is not released when nothing was ordered.
LeaveLocked(t) == job' = Finished(t) /\ UNCHANGED lockq

Leave(t) == job' = Finished(t) /\ lockq' = Tail(lockq)

\* With the position known the difference is ordered, in the same step.
Send(t, have) ==
    /\ memory' = <<have>>
    /\ LET delta == job[t].want - have IN
        IF delta = 0 THEN Leave(t) /\ UNCHANGED <<pos, shown, lost, faults>>
        ELSE PlaceOrder(t, delta, [job EXCEPT ![t].stage = "sent"]) /\ UNCHANGED lockq

\* A correction is dropped when the leader has moved meanwhile; an unknown
\* position is read first (_broker_net).
MirrorBegins(t) ==
    /\ job[t].stage = "waiting" /\ Holds(t)
    /\ IF t = "reconcile" /\ Net # job[t].want
         THEN Leave(t) /\ UNCHANGED <<memory, pos, shown, lost, faults>>
         ELSE IF memory = Unknown
           THEN At(t, "reading") /\ UNCHANGED <<lockq, memory, pos, shown, lost, faults>>
           ELSE Send(t, memory[1])
    /\ UNCHANGED <<leaderVars, feedVars, net, baseline, paused, lag, settling, saved,
                   flattened, unresolved, restarted, commands, up>>

\* An unreadable position: not mirrored.
MirrorReads(t) ==
    /\ job[t].stage = "reading" /\ Holds(t)
    /\ \/ Send(t, shown)
       \/ Fault /\ Leave(t) /\ UNCHANGED <<memory, pos, shown, lost>>
    /\ UNCHANGED <<leaderVars, feedVars, net, baseline, paused, lag, settling, saved,
                   flattened, unresolved, restarted, commands, up>>

\* last_order_at: an order went out after a reconcile read its list.
Noticed(jobs) ==
    [jobs EXCEPT !["reconcile"].result =
        IF jobs["reconcile"].stage \in {"listed", "checking"} THEN "taken" ELSE @]

\* After a failed order the position is not known any more.
MirrorAnswered(t) ==
    /\ job[t].stage = "sent" /\ Holds(t)
    /\ IF job[t].result = "taken"
         THEN memory' = <<job[t].want>> /\ settling' = "sent"
         ELSE memory' = Unknown /\ settling' = "failed"
    /\ job' = IF settling' = "sent" THEN Noticed(Finished(t)) ELSE Finished(t)
    /\ lockq' = Tail(lockq)
    /\ UNCHANGED <<leaderVars, feedVars, net, baseline, paused, brokerVars, saved,
                   flattened, unresolved, boundVars, up>>

\* The settle and hold-off times are over; the list shows every fill.
Settle ==
    /\ settling # "no" \/ shown # pos
    /\ \A t \in Task : job[t].stage \notin {"sent", "closed"}
    /\ settling' = "no"
    /\ shown' = pos
    /\ UNCHANGED <<leaderVars, feedVars, net, baseline, paused, memory, pos, lag, lost, job, lockq,
                   saved, flattened, unresolved, boundVars, up>>

-----------------------------------------------------------------------------
(* reconcile                                                               *)

\* result tells whether an order went out after the list was read or within the
\* settle time before.
ReconcileReads ==
    /\ up /\ ~paused
    /\ Idle("reconcile")
    /\ \/ /\ job' = [job EXCEPT !["reconcile"] = [Done EXCEPT
                     !.stage = "listed", !.have = shown,
                     !.result = IF settling = "sent" THEN "taken" ELSE "none"]]
          /\ UNCHANGED faults
       \/ Fault /\ UNCHANGED job
    /\ UNCHANGED <<leaderVars, feedVars, net, baseline, paused, memory, brokerVars, settling,
                   lockq, saved, flattened, unresolved, restarted, commands, up>>

\* A follower whose last order failed is left alone for a while, and so is a
\* baseline contract.
ReconcileListed ==
    /\ job["reconcile"].stage = "listed"
    /\ IF settling = "failed" \/ baseline \/ net = Nothing
         THEN job' = Finished("reconcile") /\ UNCHANGED lockq
         ELSE /\ job' = [job EXCEPT !["reconcile"].stage = "checking", !["reconcile"].want = net]
              /\ lockq' = Append(lockq, "reconcile")
    /\ UNCHANGED <<leaderVars, feedVars, net, baseline, paused, memory, brokerVars, settling,
                   saved, flattened, unresolved, boundVars, up>>

\* Fault: orders younger than the list are not noticed.
NeverStale == FALSE

\* Fault: a follower that was ever sent an order is never corrected.
AlwaysStale == memory # Unknown

\* An order went out after the list was read, or just before.
Stale == job["reconcile"].result = "taken"

\* Under the lock the broker is believed; drift is corrected under the lock
\* taken anew, behind whoever waits for it.
ReconcileChecks ==
    /\ job["reconcile"].stage = "checking" /\ Holds("reconcile")
    /\ IF Stale THEN Leave("reconcile") /\ UNCHANGED memory
       ELSE /\ memory' = <<job["reconcile"].have>>
            /\ IF job["reconcile"].have = job["reconcile"].want THEN Leave("reconcile")
               ELSE /\ At("reconcile", "waiting")
                    /\ lockq' = Append(Tail(lockq), "reconcile")
    /\ UNCHANGED <<leaderVars, feedVars, net, baseline, paused, brokerVars, settling,
                   saved, flattened, unresolved, boundVars, up>>

-----------------------------------------------------------------------------
(* sync_now, resume, flatten_followers                                     *)

SyncNow ==
    /\ up /\ Command
    /\ Idle("sync")
    /\ baseline' = FALSE /\ paused' = FALSE /\ unresolved' = FALSE
    /\ Persist(Net, FALSE)
    /\ IF Net = 0 THEN UNCHANGED <<job, lockq>>
       ELSE /\ job' = [job EXCEPT !["sync"] = [Done EXCEPT !.stage = "waiting", !.want = net]]
            /\ lockq' = Append(lockq, "sync")
    /\ UNCHANGED <<leaderVars, feedVars, net, memory, brokerVars, settling, flattened,
                   faults, restarted, up>>

Resume ==
    /\ up /\ paused
    /\ Idle("flatten")
    /\ paused' = FALSE
    /\ UNCHANGED <<leaderVars, feedVars, net, baseline, memory, brokerVars, settling, job,
                   lockq, saved, flattened, unresolved, boundVars, up>>

\* The user's flatten pauses first, the watchdog's when it is through; what
\* the mirror did not open is not its to close.
Flatten ==
    /\ up /\ Command
    /\ Idle("flatten")
    /\ flattened' = TRUE
    /\ unresolved' = FALSE
    /\ IF baseline \/ net = Nothing
         THEN paused' = TRUE /\ UNCHANGED <<job, lockq>>
         ELSE /\ paused' \in {paused, TRUE}
              /\ job' = [job EXCEPT !["flatten"] = [Done EXCEPT !.stage = "closing"]]
              /\ lockq' = Append(lockq, "flatten")
    /\ UNCHANGED <<leaderVars, feedVars, net, baseline, memory, brokerVars, settling, saved,
                   faults, restarted, up>>

\* What is behind the lock: the contract becomes baseline while the leader
\* holds a position, and a close is verified a moment later.
FlattenLeaves(isClosed) ==
    /\ lockq' = Tail(lockq)
    /\ baseline' = (Net # 0)
    /\ IF Net # 0 THEN Persist(Net, TRUE) ELSE UNCHANGED saved
    /\ IF isClosed THEN /\ job' = Noticed([job EXCEPT !["flatten"].stage = "verify"])
                        /\ UNCHANGED paused
       ELSE job' = Finished("flatten") /\ paused' = TRUE

\* The position is read and closed; without a reading nothing is sent.
FlattenCloses ==
    /\ job["flatten"].stage = "closing" /\ Holds("flatten")
    /\ \/ /\ shown # 0
          /\ PlaceOrder("flatten", -shown, [job EXCEPT !["flatten"].stage = "closed"])
          /\ UNCHANGED <<lockq, baseline, saved, paused, memory, unresolved>>
       \/ /\ shown = 0
          /\ memory' = <<0>>
          /\ FlattenLeaves(FALSE)
          /\ UNCHANGED <<pos, shown, lost, unresolved, faults>>
       \/ /\ Fault
          /\ memory' = Unknown
          /\ unresolved' = TRUE
          /\ FlattenLeaves(FALSE)
          /\ UNCHANGED <<pos, shown, lost>>
    /\ UNCHANGED <<leaderVars, feedVars, net, lag, settling, flattened, restarted,
                   commands, up>>

FlattenAnswered ==
    /\ job["flatten"].stage = "closed" /\ Holds("flatten")
    /\ IF job["flatten"].result = "taken"
         THEN memory' = <<0>> /\ settling' = "sent" /\ UNCHANGED unresolved /\ FlattenLeaves(TRUE)
         ELSE unresolved' = TRUE /\ UNCHANGED <<memory, settling>> /\ FlattenLeaves(FALSE)
    /\ UNCHANGED <<leaderVars, feedVars, net, brokerVars, flattened, boundVars, up>>

\* Reported, not written back.
FlattenVerifies ==
    /\ job["flatten"].stage = "verify"
    /\ job' = Finished("flatten")
    /\ paused' = TRUE
    /\ \/ /\ UNCHANGED faults
          /\ unresolved' = (unresolved \/ shown # 0)
          /\ settling' = IF shown # 0 THEN "failed" ELSE settling
       \/ Fault /\ unresolved' = TRUE /\ UNCHANGED settling
    /\ UNCHANGED <<leaderVars, feedVars, net, baseline, memory, brokerVars, lockq, saved,
                   flattened, restarted, commands, up>>

-----------------------------------------------------------------------------
(* The life of the runner                                                  *)

\* stop(), or the end of the process: tasks end where they are, requests that
\* were sent have arrived.
Stop ==
    /\ up
    /\ Command
    /\ restarted' = TRUE
    /\ Idle("sync") /\ Idle("flatten")
    /\ up' = FALSE
    /\ job' = [t \in Task |-> Done]
    /\ lockq' = <<>>
    /\ events' = <<>> /\ wsok' = FALSE /\ look' = <<>> /\ pending' = Nothing
    /\ net' = Nothing /\ baseline' = FALSE /\ paused' = FALSE /\ memory' = Unknown
    /\ settling' = "no" /\ unresolved' = FALSE
    /\ UNCHANGED <<leaderVars, brokerVars, saved, flattened, faults>>

\* _seed_followers (a flat contract it has no name of stays unknown) and the
\* first _seed_leader.
Start ==
    /\ ~up
    /\ up' = TRUE
    /\ memory' \in {IF shown = 0 THEN Unknown ELSE <<shown>>, Unknown}
    /\ IF saved # 0
         THEN /\ net' = saved
              /\ job' = [job EXCEPT !["poll"] = [Done EXCEPT
                            !.stage = IF lead = saved THEN "none" ELSE "named", !.want = lead]]
              /\ UNCHANGED baseline
         ELSE /\ net' = IF lead = 0 THEN Nothing ELSE lead
              /\ baseline' = (lead # 0)
              /\ UNCHANGED job
    /\ UNCHANGED <<leaderVars, feedVars, paused, brokerVars, settling, lockq, saved,
                   flattened, unresolved, boundVars>>

-----------------------------------------------------------------------------
Mirror ==
    \E t \in Task : OnPosition(t) \/ MirrorBegins(t) \/ MirrorReads(t) \/ MirrorAnswered(t)

Reconcile == ReconcileReads \/ ReconcileListed \/ ReconcileChecks
Flattening == FlattenCloses \/ FlattenAnswered \/ FlattenVerifies
Poll == PollReads \/ PollWorks

Next ==
    \/ OnWsMessage \/ Poll \/ Mirror \/ Reconcile \/ Flattening \/ Settle \/ Start
    \/ LeaderMoves \/ SocketDrops \/ SocketSyncs \/ SyncNow \/ Resume \/ Flatten \/ Stop

Spec == Init /\ [][Next]_vars

\* The loops come round, requests are answered, times pass. A reconcile that
\* keeps coming round must find the settle time over now and then, and a poll
\* its task idle.
FairSpec ==
    /\ Spec
    /\ WF_vars(OnWsMessage) /\ SF_vars(PollReads) /\ WF_vars(PollWorks)
    /\ WF_vars(Mirror) /\ WF_vars(Flattening)
    /\ WF_vars(ReconcileReads) /\ WF_vars(ReconcileListed) /\ SF_vars(ReconcileChecks)
    /\ SF_vars(Settle) /\ WF_vars(Start)

-----------------------------------------------------------------------------
(* Properties                                                              *)

\* The follower never holds more than the leader ever did and is never
\* reversed: socket, poll, reconcile, sync and flatten never mirror one change
\* twice (group_runner.py:776). With a position list that is behind accepted
\* orders this needs that no order failed and nothing was restarted or
\* flattened: the list is then believed within the settle time.
WithinLeader ==
    ~lost /\ (~lag \/ (faults = 0 /\ ~restarted /\ ~flattened)) => pos \in 0 .. peak

\* A position the leader opened before the mirror is not copied, and one that
\* was copied does not turn into such a one, except by a flatten or a restart.
BaselineNotHeld == baseline /\ ~flattened /\ ~restarted => pos = 0

\* When the leader has come to rest the follower ends up with its position,
\* whatever failed on the way, unless the contract is left alone.
LeftAlone == baseline \/ paused \/ restarted
Converges == <>[]LeftAlone \/ <>[](pos = lead)

\* An order whose answer was lost is not ordered again either: an order that went
\* out after a list was read is not yet in it (group_runner.py:979).
NeverDoubled == ~lag /\ ~restarted => pos <= peak

\* The same over restarts (group_runner.py:411: "so a restart (every deploy is
\* one) carries on instead of starting a baseline").
RestartCarriesOn ==
    \/ <>[](paused \/ flattened)
    \/ <>[](baseline /\ pos = 0)
    \/ <>[](pos = lead)

\* What was flattened is not re-entered by the reconcile (group_runner.py:1113,
\* routers/copy.py:273): while the group is paused and the contract left alone
\* after a flatten, it buys nothing for the follower.
StaysFlat ==
    [][flattened /\ paused /\ baseline /\ job'["reconcile"] # job["reconcile"] => pos' <= pos]_vars
=============================================================================
