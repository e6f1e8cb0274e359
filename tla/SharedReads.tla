----------------------------- MODULE SharedReads -----------------------------
(***************************************************************************)
(* Reads of one login that several callers ask for at once                 *)
(* (app/tradovate.py): _coalesced for the login-wide lists, with _join and *)
(* _LeaderGone, and _single_flight, which is the same without the second   *)
(* read: a contract's name does not get stale.  One key (path and lane).   *)
(* The caller that starts a read leads it; a cancelled leader takes the    *)
(* read with it.  A step is what a coroutine does between two awaits.      *)
(***************************************************************************)
EXTENDS Naturals, FiniteSets

CONSTANTS
    Caller,
    MaxReads,     \* bound: reads of one behaviour
    MaxCancels,   \* bound: callers cancelled from outside
    Lists         \* TRUE: _coalesced; FALSE: _single_flight

VARIABLES
    inflight,     \* the read under the key in _inflight (_lookups), 0 if none
    read,         \* reads so far: "open", "sent", then "ok", "error" or "gone"
    reads,        \* how many there are
    at,           \* where each caller is
    of,           \* the read it leads or waits for; in the end the one it got
    asked,        \* history: the last read that had been sent when it asked
    awaited,      \* history: reads it has waited for to the end
    cancels

vars == <<inflight, read, reads, at, of, asked, awaited, cancels>>

TypeOK ==
    /\ inflight \in 0 .. reads
    /\ read \in [1 .. MaxReads -> {"none", "open", "sent", "ok", "error", "gone"}]
    /\ reads \in 0 .. MaxReads
    /\ at \in [Caller -> {"idle", "lead", "late", "join", "got", "error", "cancelled"}]
    /\ of \in [Caller -> 0 .. MaxReads]
    /\ asked \in [Caller -> 0 .. MaxReads]
    /\ awaited \in [Caller -> 0 .. MaxReads]
    /\ cancels \in 0 .. MaxCancels
    \* what is under the key has not ended, and exactly one caller leads it
    /\ inflight # 0 => /\ read[inflight] \in {"open", "sent"}
                       /\ \E c \in Caller : at[c] = "lead" /\ of[c] = inflight
    /\ \A c \in Caller : at[c] = "lead" => of[c] = inflight

Init ==
    /\ inflight = 0
    /\ read = [n \in 1 .. MaxReads |-> "none"]
    /\ reads = 0
    /\ at = [c \in Caller |-> "idle"]
    /\ of = [c \in Caller |-> 0]
    /\ asked = [c \in Caller |-> 0]
    /\ awaited = [c \in Caller |-> 0]
    /\ cancels = 0

Ended(n) == read[n] \in {"ok", "error", "gone"}
Move(c, where, n) == at' = [at EXCEPT ![c] = where] /\ of' = [of EXCEPT ![c] = n]

\* The caller becomes the leader of a read of its own.
Lead(c) ==
    /\ reads < MaxReads
    /\ reads' = reads + 1
    /\ inflight' = reads + 1
    /\ read' = [read EXCEPT ![reads + 1] = "open"]
    /\ Move(c, "lead", reads + 1)

Wait(c, where, n) == Move(c, where, n) /\ UNCHANGED <<inflight, read, reads>>

\* Fault: a read that has left is joined like one that has not.
EnterAny(c) == IF inflight = 0 THEN Lead(c) ELSE Wait(c, "join", inflight)

\* The head of the loop: lead, join a read that has not left, or wait for the
\* end of one that has.
Enter(c) ==
    IF inflight = 0 THEN Lead(c)
    ELSE IF Lists /\ read[inflight] = "sent" THEN Wait(c, "late", inflight)
    ELSE Wait(c, "join", inflight)

\* The last read whose request has left.
Left == IF inflight # 0 /\ read[inflight] = "open" THEN reads - 1 ELSE reads

\* A caller asks.  What had left by now may be older than its last order.
Ask(c) ==
    /\ at[c] = "idle"
    /\ Enter(c)
    /\ asked' = [asked EXCEPT ![c] = Left]
    /\ UNCHANGED <<awaited, cancels>>

\* The lane let the request out (on_send).
Send(c) ==
    /\ at[c] = "lead"
    /\ read[of[c]] = "open"
    /\ read' = [read EXCEPT ![of[c]] = "sent"]
    /\ UNCHANGED <<inflight, reads, at, of, asked, awaited, cancels>>

\* The answer, or an error (before it left: a penalty, an expired token).
Answered(c, outcome) ==
    /\ at[c] = "lead"
    /\ outcome = "ok" => read[of[c]] = "sent"
    /\ read' = [read EXCEPT ![of[c]] = outcome]
    /\ inflight' = 0
    /\ Move(c, IF outcome = "ok" THEN "got" ELSE "error", of[c])
    /\ awaited' = [awaited EXCEPT ![c] = @ + 1]
    /\ UNCHANGED <<reads, asked, cancels>>

\* Fault: the leader leaves its read under the key.
CancelKeeping(c) ==
    /\ at[c] \in {"lead", "late", "join"}
    /\ cancels < MaxCancels
    /\ cancels' = cancels + 1
    /\ Move(c, "cancelled", of[c])
    /\ UNCHANGED <<inflight, read, reads, asked, awaited>>

\* A caller is cancelled: its wait_for ran out, its task ends.  Its own read
\* ends with it; the read of another caller goes on (shield).
Cancel(c) ==
    /\ at[c] \in {"lead", "late", "join"}
    /\ cancels < MaxCancels
    /\ cancels' = cancels + 1
    /\ IF at[c] = "lead"
         THEN inflight' = 0 /\ read' = [read EXCEPT ![of[c]] = "gone"]
         ELSE UNCHANGED <<inflight, read>>
    /\ Move(c, "cancelled", of[c])
    /\ UNCHANGED <<reads, asked, awaited>>

\* The read a late caller waited out has ended, in whichever way: join the one
\* a sibling has started meanwhile, whether that has left or not, or lead.
Resume(c) ==
    /\ at[c] = "late"
    /\ Ended(of[c])
    /\ IF inflight = 0 THEN Lead(c) ELSE Wait(c, "join", inflight)
    /\ awaited' = [awaited EXCEPT ![c] = @ + 1]
    /\ UNCHANGED <<asked, cancels>>

\* Fault: the cancellation of the leader reaches those who joined it.
TakeSpurious(c) ==
    /\ at[c] = "join"
    /\ Ended(of[c])
    /\ Wait(c, CASE read[of[c]] = "ok" -> "got" [] read[of[c]] = "error" -> "error"
                 [] OTHER -> "cancelled", of[c])
    /\ awaited' = [awaited EXCEPT ![c] = @ + 1]
    /\ UNCHANGED <<asked, cancels>>

\* The read it joined has ended: its result, its error, or another round when
\* the leader was cancelled (_LeaderGone).
Take(c) ==
    /\ at[c] = "join"
    /\ Ended(of[c])
    /\ IF read[of[c]] = "gone"
         THEN Enter(c) /\ UNCHANGED awaited
         ELSE /\ Wait(c, IF read[of[c]] = "ok" THEN "got" ELSE "error", of[c])
              /\ awaited' = [awaited EXCEPT ![c] = @ + 1]
    /\ UNCHANGED <<asked, cancels>>

Progress(c) ==
    \/ Send(c) \/ (\E outcome \in {"ok", "error"} : Answered(c, outcome))
    \/ Resume(c) \/ Take(c)

Next == \E c \in Caller : Ask(c) \/ Cancel(c) \/ Progress(c)

Spec == Init /\ [][Next]_vars
FairSpec == Spec /\ \A c \in Caller : WF_vars(Progress(c))
------------------------------------------------------------------------------
(* Properties                                                              *)

\* "Nobody gets stale data": what a caller of a list read gets was requested
\* after it asked, so it shows what the caller had done before.
Fresh == \A c \in Caller : Lists /\ at[c] = "got" => of[c] > asked[c]

\* "At most two reads": a caller waits for the read in flight and for one
\* more, for another when a leader is cancelled, and ends cancelled only if it
\* was itself.
AtMostTwo ==
    /\ \A c \in Caller : awaited[c] <= 2 + cancels
    /\ Cardinality({c \in Caller : at[c] = "cancelled"}) = cancels

\* Every caller gets a result, an error or its cancellation: no read is waited
\* for that nobody leads.
NobodyAsks == \A c \in Caller : at[c] \notin {"lead", "late", "join"}
EveryAskEnds == <>[]NobodyAsks
==============================================================================
