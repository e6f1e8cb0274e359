------------------------------- MODULE Relay -------------------------------
(***************************************************************************)
(* Orders of a login that trades through an execution agent: the bridge's  *)
(* queue of jobs (app/relay.py), the agent's processes that poll it        *)
(* (agent/fluxbridge_agent.py) and the answer the session turns a job into *)
(* (app/tradovate.py). One agent id; its token may be used by more than    *)
(* one process, as when a service is restarted beside a hanging one. A     *)
(* job is one request on an order path; every job is requested at most     *)
(* once. Steps of the bridge are its event loop's: what happens between    *)
(* two awaits is one action.                                               *)
(***************************************************************************)
EXTENDS Naturals, Sequences, Functions

CONSTANTS
    Job,         \* the requests callers make
    Helper,      \* the agent's processes
    MaxJobs,     \* next_jobs' max_jobs
    MaxPolls,    \* bound: polls of dead connections still waiting at the bridge
    Errors       \* the network errors the agent's own request can meet

\* "timeout": no answer in time, before or after the request arrived;
\* "connect": the connection was never made; "dropped": it was closed after
\* the request had been sent, or the answer came back empty.
\* what the constants satisfy
ASSUME RelayAssumption ==
    /\ MaxJobs \in Nat \ {0}
    /\ MaxPolls \in Nat
    /\ Errors \subseteq {"timeout", "connect", "dropped"}

VARIABLES
    caller,      \* where request() is, for each job
    told,        \* what the caller was told in the end
    future,      \* the job's future
    claimed,     \* the job's claimed flag
    queue,       \* the agent's asyncio.Queue of jobs
    online,      \* the agent was seen within ONLINE_WINDOW_S
    polls,       \* next_jobs calls whose connection is gone
    helper,      \* what an agent process is doing
    batch,       \* the jobs it was handed and has not run yet
    posted,      \* answers on their way to the bridge
    taken,       \* how often the broker has executed a job
    cut          \* history: the jobs that ended in "dropped"

vars == <<caller, told, future, claimed, queue, online, polls, helper, batch,
          posted, taken, cut>>

bridgeVars == <<caller, told, future, claimed>>

\* What the agent posts about a job: the broker's answer or its own error.
Results == {"done", "no", "gateway"} \cup Errors

\* request(j) is in one of its two waits.
Waiting(j) == caller[j] \in {"dispatch", "result"}

TypeOK ==
    /\ caller \in [Job -> {"idle", "dispatch", "result", "over"}]
    /\ told \in [Job -> {"unsent", "open", "accepted", "refused", "unknown", "gone"}]
    /\ future \in [Job -> {"none", "pending", "cancelled"} \cup Results]
    /\ claimed \in [Job -> BOOLEAN]
    /\ queue \in Seq(Job)
    /\ online \in BOOLEAN
    /\ polls \in 0 .. MaxPolls
    /\ helper \in [Helper -> {"ready", "polling", "running"}]
    /\ batch \in [Helper -> Seq(Job)]
    /\ \A h \in Helper : Len(batch[h]) <= MaxJobs
    /\ posted \subseteq (Job \X Results)
    /\ taken \in [Job -> Nat]
    /\ cut \subseteq Job
    /\ \A j \in Job : future[j] = "pending" => Waiting(j)

Init ==
    /\ caller = [j \in Job |-> "idle"]
    /\ told = [j \in Job |-> "unsent"]
    /\ future = [j \in Job |-> "none"]
    /\ claimed = [j \in Job |-> FALSE]
    /\ queue = <<>>
    /\ online = FALSE
    /\ polls = 0
    /\ helper = [h \in Helper |-> "ready"]
    /\ batch = [h \in Helper |-> <<>>]
    /\ posted = {}
    /\ taken = [j \in Job |-> 0]
    /\ cut = {}

-----------------------------------------------------------------------------
(* The bridge: request() and the session's reading of its result           *)

\* What the session makes of an answer on an order path.
Reading(result) ==
    CASE result = "done" -> "accepted"
      [] result \in {"timeout", "gateway"} -> "unknown"
      [] OTHER -> "refused"

\* Fault: request() pops the job and leaves its future alone.
OverUncancelled(j, answer) ==
    /\ caller' = [caller EXCEPT ![j] = "over"]
    /\ told' = [told EXCEPT ![j] = answer]
    /\ UNCHANGED future

\* request() pops the job and, when nothing answered it, cancels its future.
Over(j, answer) ==
    /\ caller' = [caller EXCEPT ![j] = "over"]
    /\ told' = [told EXCEPT ![j] = answer]
    /\ future' = [future EXCEPT ![j] = IF @ = "pending" THEN "cancelled" ELSE @]

\* The jobs of s that nobody answered or gave up on, in their order.
Pending(s) ==
    LET kept[i \in 0 .. Len(s)] ==
            IF i = 0 THEN <<>>
            ELSE IF future[s[i]] = "pending" THEN Append(kept[i - 1], s[i]) ELSE kept[i - 1]
    IN kept[Len(s)]

\* _prune: jobs their callers gave up on leave the queue.
Prune == Pending(queue)

Request(j) ==
    /\ caller[j] = "idle"
    /\ online
    /\ caller' = [caller EXCEPT ![j] = "dispatch"]
    /\ told' = [told EXCEPT ![j] = "open"]
    /\ future' = [future EXCEPT ![j] = "pending"]
    /\ queue' = Append(Prune, j)
    /\ UNCHANGED <<claimed, online, polls, helper, batch, posted, taken, cut>>

RequestOffline(j) ==
    /\ caller[j] = "idle"
    /\ ~online
    /\ caller' = [caller EXCEPT ![j] = "over"]
    /\ told' = [told EXCEPT ![j] = "refused"]
    /\ UNCHANGED <<future, claimed, queue, online, polls, helper, batch, posted, taken, cut>>

Answered(j) ==
    /\ Waiting(j)
    /\ future[j] \in Results
    /\ Over(j, Reading(future[j]))
    /\ UNCHANGED <<claimed, queue, online, polls, helper, batch, posted, taken, cut>>

\* Fault: the first timer only looks after claimed jobs.
DispatchTimeoutPatient(j) ==
    /\ caller[j] = "dispatch"
    /\ claimed[j]
    /\ caller' = [caller EXCEPT ![j] = "result"]
    /\ UNCHANGED <<told, future, claimed, queue, online, polls, helper, batch, posted, taken, cut>>

\* DISPATCH_TIMEOUT_S has passed: "offline" unless a poll claimed the job.
DispatchTimeout(j) ==
    /\ caller[j] = "dispatch"
    /\ IF claimed[j]
         THEN /\ caller' = [caller EXCEPT ![j] = "result"]
              /\ UNCHANGED <<told, future>>
         ELSE Over(j, "refused")
    /\ UNCHANGED <<claimed, queue, online, polls, helper, batch, posted, taken, cut>>

\* ResultUnknown, also when the answer lands in the loop turn of the timer.
ResultTimeout(j) ==
    /\ caller[j] = "result"
    /\ Over(j, "unknown")
    /\ UNCHANGED <<claimed, queue, online, polls, helper, batch, posted, taken, cut>>

\* The caller's task is cancelled: its signal ran out of time.
Abandon(j) ==
    /\ Waiting(j)
    /\ Over(j, "gone")
    /\ UNCHANGED <<claimed, queue, online, polls, helper, batch, posted, taken, cut>>

-----------------------------------------------------------------------------
(* The bridge: next_jobs() and deliver()                                   *)

\* One turn of next_jobs: at most MaxJobs leave the queue, the abandoned ones
\* among them are dropped, the others are claimed for this poll.
Drawn == SubSeq(queue, 1, IF Len(queue) < MaxJobs THEN Len(queue) ELSE MaxJobs)

\* Fault: next_jobs without its look at the future.
LiveAbandoned == Drawn

Live == Pending(Drawn)

Draw ==
    /\ queue # <<>>
    /\ queue' = SubSeq(queue, Len(Drawn) + 1, Len(queue))
    /\ claimed' = [j \in Job |-> claimed[j] \/ j \in Range(Live)]
    /\ online' = (online \/ Live # <<>>)

Poll(h) ==
    /\ helper[h] = "ready"
    /\ helper' = [helper EXCEPT ![h] = "polling"]
    /\ online' = TRUE
    /\ UNCHANGED <<bridgeVars, queue, polls, batch, posted, taken, cut>>

\* The poll is answered with the jobs it claimed; with none it goes on waiting.
HandOut(h) ==
    /\ helper[h] = "polling"
    /\ Draw
    /\ batch' = [batch EXCEPT ![h] = Live]
    /\ helper' = [helper EXCEPT ![h] = IF Live = <<>> THEN "polling" ELSE "running"]
    /\ UNCHANGED <<caller, told, future, polls, posted, taken, cut>>

\* The wait is over without a job.
HandOutNothing(h) ==
    /\ helper[h] = "polling"
    /\ helper' = [helper EXCEPT ![h] = "ready"]
    /\ online' = TRUE
    /\ UNCHANGED <<bridgeVars, queue, polls, batch, posted, taken, cut>>

\* The agent's connection breaks or times out; the bridge still waits for jobs
\* on its behalf.
PollLost(h) ==
    /\ helper[h] = "polling"
    /\ polls < MaxPolls
    /\ polls' = polls + 1
    /\ helper' = [helper EXCEPT ![h] = "ready"]
    /\ UNCHANGED <<bridgeVars, queue, online, batch, posted, taken, cut>>

\* A poll nobody listens to claims jobs (its answer is lost) or runs out.
HandOutToNobody ==
    /\ polls > 0
    /\ Draw
    /\ polls' = IF Live = <<>> THEN polls ELSE polls - 1
    /\ UNCHANGED <<caller, told, future, helper, batch, posted, taken, cut>>

LostPollEnds ==
    /\ polls > 0
    /\ polls' = polls - 1
    /\ online' = TRUE
    /\ UNCHANGED <<bridgeVars, queue, helper, batch, posted, taken, cut>>

\* deliver(): refused unless the job is in flight and unanswered.
Deliver(j, result) ==
    /\ <<j, result>> \in posted
    /\ posted' = posted \ {<<j, result>>}
    /\ online' = TRUE
    /\ future' = [future EXCEPT ![j] =
                    IF Waiting(j) /\ @ = "pending" THEN result ELSE @]
    /\ UNCHANGED <<caller, told, claimed, queue, polls, helper, batch, taken, cut>>

\* No poll for ONLINE_WINDOW_S.
GoesOffline ==
    /\ online
    /\ online' = FALSE
    /\ UNCHANGED <<bridgeVars, queue, polls, helper, batch, posted, taken, cut>>

\* The bridge process ends and starts again: callers, queue and waiting polls
\* were its memory. A batch an agent holds survives it.
Restart ==
    /\ \E j \in Job : Waiting(j)
    /\ caller' = [j \in Job |-> IF Waiting(j) THEN "over" ELSE caller[j]]
    /\ told' = [j \in Job |-> IF Waiting(j) THEN "gone" ELSE told[j]]
    /\ future' = [j \in Job |-> IF future[j] = "pending" THEN "cancelled" ELSE future[j]]
    /\ queue' = <<>>
    /\ polls' = 0
    /\ online' = FALSE
    /\ helper' = [h \in Helper |-> IF helper[h] = "polling" THEN "ready" ELSE helper[h]]
    /\ UNCHANGED <<claimed, batch, posted, taken, cut>>

-----------------------------------------------------------------------------
(* The agent                                                               *)

\* Whether the broker can have executed a request that ended this way.
Executed(result) ==
    CASE result = "done" -> {1}
      [] result \in {"no", "connect"} -> {0}
      [] OTHER -> {0, 1}

\* run_job on the first job of the batch; its result goes to the bridge, or is
\* lost on the way, and the process moves on.
Run(h, result) ==
    /\ helper[h] = "running"
    /\ LET j == Head(batch[h])
       IN /\ \E n \in Executed(result) : taken' = [taken EXCEPT ![j] = @ + n]
          /\ posted' \in {posted, posted \cup {<<j, result>>}}
          /\ cut' = IF result = "dropped" THEN cut \cup {j} ELSE cut
    /\ batch' = [batch EXCEPT ![h] = Tail(@)]
    /\ helper' = [helper EXCEPT ![h] = IF Tail(batch[h]) = <<>> THEN "ready" ELSE "running"]
    /\ UNCHANGED <<bridgeVars, queue, online, polls>>

\* The process ends, or an exception leaves the batch's loop: the rest of the
\* batch is forgotten and the process polls again.
HelperFails(h) ==
    /\ helper[h] = "running"
    /\ batch' = [batch EXCEPT ![h] = <<>>]
    /\ helper' = [helper EXCEPT ![h] = "ready"]
    /\ UNCHANGED <<bridgeVars, queue, online, polls, posted, taken, cut>>

-----------------------------------------------------------------------------
Caller(j) ==
    Request(j) \/ RequestOffline(j) \/ Answered(j) \/ DispatchTimeout(j)
        \/ ResultTimeout(j) \/ Abandon(j)

Agent(h) ==
    \/ Poll(h) \/ HandOut(h) \/ HandOutNothing(h) \/ PollLost(h) \/ HelperFails(h)
    \/ \E result \in Results : Run(h, result)

Bridge ==
    \/ HandOutToNobody \/ LostPollEnds \/ GoesOffline \/ Restart
    \/ \E j \in Job, result \in Results : Deliver(j, result)

Next == (\E j \in Job : Caller(j)) \/ (\E h \in Helper : Agent(h)) \/ Bridge

Spec == Init /\ [][Next]_vars

\* The timers of request() fire whatever the agent does.
Timers == \E j \in Job : Answered(j) \/ DispatchTimeout(j) \/ ResultTimeout(j)

FairSpec == Spec /\ WF_vars(Timers)
-----------------------------------------------------------------------------
(* Properties                                                              *)

Channel == INSTANCE OrderChannel WITH Job <- Job, told <- told, taken <- taken, cut <- cut

\* The queue, the polls and the agent together are an order channel: however
\* timeouts, lost polls, crashes and late answers fall, an order is executed
\* at most once, one reported as accepted was executed, and one reported as
\* refused or offline neither was nor will be (relay.py:186), unless the agent's
\* connection to the broker was dropped after the order had been sent.
IsOrderChannel == Channel!Spec

\* Not so: an order reported to its caller as a plain failure is not at the
\* broker and never gets there. The agent reports a dropped connection by the
\* name of its exception (fluxbridge_agent.py:164), and the session reads every
\* name without a time-out in it as a refusal (tradovate.py:396-402).
RefusedNeverTaken == \A j \in Job : told[j] = "refused" => taken[j] = 0

\* A job its caller gave up on before any poll claimed it is never handed to
\* an agent nor executed, whatever ended the caller: a timer, a cancellation
\* or a restart of the bridge (relay.py:182-186, relay.py:213).
UnclaimedStep ==
    \A j \in Job : caller[j] = "over" /\ ~claimed[j] =>
        /\ ~claimed'[j]
        /\ taken'[j] = 0
        /\ \A h \in Helper : j \notin Range(batch'[h])
UnclaimedNeverRuns == [][UnclaimedStep]_vars

\* Every caller gets an answer or an exception, with an agent that crashes,
\* hangs or never answers.
NobodyWaits == \A j \in Job : ~Waiting(j)
EveryRequestEnds == <>[]NobodyWaits
=============================================================================
