------------------------------ MODULE BrokerCall ------------------------------
(***************************************************************************)
(* One mutation sent to a broker through its adapter: Tradovate            *)
(* (tradovate.py, _request_raw and place_order), ProjectX (projectx.py,    *)
(* _post) or Rithmic (rithmic.py, over a socket library).  The adapter has *)
(* to tell its caller whether the order was accepted, refused (the caller  *)
(* may send it again) or of unknown outcome (it never may).                *)
(*                                                                         *)
(* Two callers: the placement of a protective stop, tried a second time    *)
(* after a refusal (engine/common.py, _place_stop_with_retry), and an OCO  *)
(* pair of the copy mirror, which the two newer adapters send as two       *)
(* orders, cancelling the first when the second is refused.                *)
(***************************************************************************)
EXTENDS Naturals, FiniteSets

CONSTANT Adapters   \* among "tradovate", "projectx", "rithmic"

\* What became of a request: never sent; sent and no answer in time; the
\* connection reset after it was sent; an unreadable success; one without a body or
\* an order's id; an HTTP status; the broker's refusal; its acceptance.
HttpAnswer == {"connect", "timeout", "reset", "garbled", "blank", "401", "429", "4xx", "gateway",
               "refused", "accepted"}
Answer(a) == IF a = "rithmic" THEN {"connect", "timeout", "reset", "blank", "refused", "accepted"}
                              ELSE HttpAnswer

\* The broker may have executed a request that ended so; no adapter sees it of two of these.
MayHaveRun == {"timeout", "reset", "garbled", "blank", "gateway"}
Misread == {"reset", "blank"}

Legs == {1, 2}

VARIABLES
    adapter, op,      \* "stop" or "oco"
    at,               \* "gate", "lane", "send", "undo", "pause", "told"
    leg,              \* the attempt of a stop, the leg of an OCO
    relogged,         \* ProjectX: the token was renewed after a 401
    told,             \* the caller's result
    working,          \* orders at the broker
    misread,          \* history: orders of a request whose answer was misread as a refusal
    stuck             \* history: the first leg, not taken back when the second was refused

vars == <<adapter, op, at, leg, relogged, told, working, misread, stuck>>
call == <<adapter, op>>

TypeOK ==
    /\ adapter \in Adapters /\ op \in {"stop", "oco"}
    /\ at \in {"gate", "lane", "send", "undo", "pause", "told"}
    /\ leg \in Legs /\ relogged \in BOOLEAN
    /\ told \in {"none", "accepted", "rejected", "unknown"}
    /\ working \subseteq Legs /\ misread \subseteq Legs /\ stuck \subseteq {1}

Init ==
    /\ adapter \in Adapters /\ op \in {"stop", "oco"}
    /\ at = "gate" /\ leg = 1 /\ relogged = FALSE
    /\ told = "none" /\ working = {} /\ misread = {} /\ stuck = {}
------------------------------------------------------------------------------
\* Tradovate takes the pair in one request.
Pair == op = "oco" /\ adapter # "tradovate"
Orders == IF op = "oco" /\ adapter = "tradovate" THEN Legs ELSE {leg}

\* Fault: a gateway's 502 or 504 counts as a refusal.
VerdictOfStatus(a, answer) ==
    CASE answer = "accepted" -> "accepted"
      [] answer \in (IF a = "rithmic" THEN {"timeout"} ELSE {"timeout", "garbled"}) -> "unknown"
      [] OTHER -> "rejected"

\* What the adapter makes of it; an exception it does not classify is a refusal
\* to every caller.
Verdict(a, answer) ==
    CASE answer = "accepted" -> "accepted"
      [] answer \in (IF a = "rithmic" THEN {"timeout"} ELSE {"timeout", "garbled", "gateway"}) -> "unknown"
      [] OTHER -> "rejected"

\* A refusal: a stop has a second attempt, the second leg of a pair takes the
\* first one back, anything else is the caller's result.
Refused ==
    /\ IF op = "stop" /\ leg = 1 THEN at' = "pause" /\ UNCHANGED told
       ELSE IF Pair /\ leg = 2 THEN at' = "undo" /\ UNCHANGED told
       ELSE at' = "told" /\ told' = "rejected"
    /\ UNCHANGED stuck

\* An exception of the HTTP library that ProjectX lets through: a refusal to the
\* caller, but place_oco takes nothing back.
Raised ==
    /\ IF op = "stop" /\ leg = 1 THEN at' = "pause" /\ UNCHANGED told
                                 ELSE at' = "told" /\ told' = "rejected"
    /\ stuck' = IF Pair /\ leg = 2 THEN {1} ELSE stuck

\* The outcome is told as unknown; nothing is cancelled.
Unsure == at' = "told" /\ told' = "unknown" /\ UNCHANGED stuck

\* The risk guard's lock, or an unknown account or contract: nothing is sent.
Gate ==
    /\ at = "gate"
    /\ \/ at' = "lane" /\ UNCHANGED <<told, stuck>>
       \/ Refused
    /\ UNCHANGED <<call, leg, relogged, working, misread>>

\* A token or a connected client, and the login's lane: a long penalty refuses.  On
\* ProjectX the request for a token may itself break off or time out (_get_token).
Lane ==
    /\ at = "lane"
    /\ \/ at' = "send" /\ UNCHANGED <<told, stuck>>
       \/ Refused
       \/ adapter = "projectx" /\ (Raised \/ Unsure)
    /\ UNCHANGED <<call, leg, relogged, working, misread>>

Accepted ==
    /\ IF Pair /\ leg = 1 THEN at' = "gate" /\ leg' = 2 /\ relogged' = FALSE /\ UNCHANGED told
                          ELSE at' = "told" /\ told' = "accepted" /\ UNCHANGED <<leg, relogged>>
    /\ UNCHANGED stuck

Send ==
    /\ at = "send"
    /\ \E answer \in Answer(adapter) :
        /\ working' \in (CASE answer = "accepted" -> {working \cup Orders}
                           [] answer \in MayHaveRun -> {working, working \cup Orders}
                           [] OTHER -> {working})
        /\ misread' = IF answer \in Misread THEN misread \cup Orders ELSE misread
        /\ IF answer = "401" /\ adapter = "projectx" /\ ~relogged
             THEN at' = "lane" /\ relogged' = TRUE /\ UNCHANGED <<leg, told, stuck>>
             ELSE CASE Verdict(adapter, answer) = "accepted" -> Accepted
                    [] Verdict(adapter, answer) = "unknown" -> Unsure /\ UNCHANGED <<leg, relogged>>
                    [] OTHER -> /\ IF adapter = "projectx" /\ answer = "reset" THEN Raised ELSE Refused
                                /\ UNCHANGED <<leg, relogged>>
    /\ UNCHANGED call

\* _penalty: the pause before the second attempt.
Retry ==
    /\ at = "pause"
    /\ at' = "gate" /\ leg' = 2 /\ relogged' = FALSE
    /\ UNCHANGED <<call, told, working, misread, stuck>>

\* place_oco: the first leg is cancelled; a failure of that is swallowed.
Undo ==
    /\ at = "undo"
    /\ \/ working' = working \ {1} /\ UNCHANGED stuck
       \/ working' \in {working, working \ {1}} /\ stuck' = {1}
    /\ at' = "told" /\ told' = "rejected"
    /\ UNCHANGED <<call, leg, relogged, misread>>

Done == at = "told" /\ UNCHANGED vars

Next == Gate \/ Lane \/ Send \/ Retry \/ Undo \/ Done
Spec == Init /\ [][Next]_vars
------------------------------------------------------------------------------
(* Properties                                                              *)

\* What is told as accepted works; what is told as refused works only where one of the
\* two misread answers came, or where the first leg of a pair was not taken back; and an
\* unknown outcome leaves at most the last order sent, an accepted first leg and misread
\* ones.  A gateway's error, a time-out or an unreadable answer never ends as a refusal.
ToldIsTrue ==
    /\ told = "accepted" => IF op = "stop" THEN leg \in working /\ working \subseteq {leg} \cup misread
                                            ELSE working = Legs
    /\ told = "rejected" => working \subseteq misread \cup stuck
    /\ told = "unknown" =>
           working \subseteq misread \cup Orders \cup (IF Pair /\ leg = 2 THEN {1} ELSE {})

\* Not so: "connect / pool errors: nothing was sent" (tradovate.py:419), said of every
\* other error of the HTTP library: what is told as refused does not work.
RefusedIsDead == told = "rejected" => working = {}

\* Not so: "never as a rejection (a rejection invites a retry that could double it)"
\* (rithmic.py:752): a position never has two stops.
NeverTwoStops == op = "stop" => Cardinality(working) <= 1
==============================================================================
