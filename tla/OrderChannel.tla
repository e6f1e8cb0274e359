---------------------------- MODULE OrderChannel ----------------------------
(***************************************************************************)
(* What the code above the transport relies on when it sends an order: the *)
(* order reaches the broker at most once, whatever its sender was told.    *)
(* A sender told "accepted" may record the order. One told "refused" may   *)
(* try again or report a failure: the order is not at the broker and never *)
(* will be, unless its answer was cut off (cut), for then a refusal says   *)
(* nothing. "unknown" and "gone" (nobody is left to be told) promise       *)
(* nothing. app/tradovate.py's TradovateError and OrderOutcomeUnknown mean *)
(* to promise more, a refusal that holds without exception                 *)
(* (tradovate.py:43-58).                                                   *)
(***************************************************************************)
EXTENDS Naturals

CONSTANT Job

VARIABLES
    told,        \* what the sender of a job has been told
    taken,       \* how often the broker has executed the job
    cut          \* the jobs that were sent and whose answer was cut off

channelVars == <<told, taken, cut>>

Answers == {"accepted", "refused", "unknown", "gone"}

Init ==
    /\ told = [j \in Job |-> "unsent"]
    /\ taken = [j \in Job |-> 0]
    /\ cut = {}

Send(j) ==
    /\ told[j] = "unsent"
    /\ told' = [told EXCEPT ![j] = "open"]
    /\ UNCHANGED <<taken, cut>>

\* The broker executes the order: before an answer, or late, after its sender
\* was left without one.
Take(j) ==
    /\ told[j] \in {"open", "unknown", "gone"}
    /\ taken[j] = 0
    /\ taken' = [taken EXCEPT ![j] = 1]
    /\ UNCHANGED <<told, cut>>

\* The connection closes, or an empty answer comes back, after the order was
\* sent: executed or not, and nobody can tell.
Cut(j) ==
    /\ told[j] \in {"open", "unknown", "gone"}
    /\ taken[j] = 0
    /\ taken' \in {taken, [taken EXCEPT ![j] = 1]}
    /\ cut' = cut \cup {j}
    /\ UNCHANGED told

Tell(j, answer) ==
    /\ told[j] \in {"unsent", "open"}
    /\ answer = "accepted" => taken[j] = 1
    /\ answer = "refused" => taken[j] = 0 \/ j \in cut
    /\ told' = [told EXCEPT ![j] = answer]
    /\ UNCHANGED <<taken, cut>>

\* Every open sender goes at once: the process ends.
Stop ==
    /\ told' = [j \in Job |-> IF told[j] = "open" THEN "gone" ELSE told[j]]
    /\ UNCHANGED <<taken, cut>>

Next ==
    \/ \E j \in Job : Send(j) \/ Take(j) \/ Cut(j) \/ (\E answer \in Answers : Tell(j, answer))
    \/ Stop

Spec == Init /\ [][Next]_channelVars
=============================================================================
