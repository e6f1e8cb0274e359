--------------------------- MODULE TradingProofs ---------------------------
(***************************************************************************)
(* Proofs of TradingSafety, second part: the calls of the brokers' clients *)
(* (BrokerCall, RequestLane, LoginClient), the news lock (NewsLock) and    *)
(* the history's writer (HistoryWriter), for any requests, clients, rows,  *)
(* windows and faults, each by an inductive invariant of its own; and the  *)
(* suite, whose behaviours are one of one part's.                          *)
(***************************************************************************)
EXTENDS TradingStopsProofs

-----------------------------------------------------------------------------
(* BrokerCall: what a caller is told of its orders is so.                  *)
(* Until a verdict is final nothing works but the first leg of a pair that *)
(* was accepted, and orders whose answer was misread; any other request    *)
(* that may have run unseen ends the call.                                 *)

\* The accepted first leg of a pair, while the second is under way.
FirstLeg == IF Call!Pair /\ leg = 2 THEN {1} ELSE {}

\* Where a call stands, and what works at the broker then.
Stands ==
    /\ at # "told" => told = "none"
    /\ at = "pause" => op = "stop" /\ leg = 1
    /\ at = "undo" => Call!Pair /\ leg = 2
    /\ leg = 2 => op = "stop" \/ Call!Pair
    /\ at # "told" => FirstLeg \subseteq working /\ working \subseteq misread \cup FirstLeg

CallInv == Call!TypeOK /\ Stands /\ Call!ToldIsTrue

\* A call begins at the risk guard's gate.
LEMMA CallInit == ASSUME Call!Init PROVE CallInv
<1>1. relogged \in BOOLEAN
  BY Zenon DEF Call!Init
<1>2. Call!TypeOK
  BY <1>1 DEF Call!Init, Call!TypeOK, Call!Legs
<1> QED BY <1>2 DEF Call!Init, CallInv, Stands, FirstLeg, Call!ToldIsTrue, Call!Pair

\* What a verdict says of the answer.
LEMMA Verdicts ==
    ASSUME NEW a, NEW reply
    PROVE  /\ Call!Verdict(a, reply) \in {"accepted", "unknown", "rejected"}
           /\ Call!Verdict(a, reply) = "accepted" <=> reply = "accepted"
           /\ reply \in Call!Answer(a) /\ Call!Verdict(a, reply) = "rejected" =>
                reply \in Call!Misread \/ reply \notin Call!MayHaveRun
BY DEF Call!Verdict, Call!Answer, Call!HttpAnswer, Call!MayHaveRun, Call!Misread

\* A refusal ends the call or goes on to what is left of it.
LEMMA RefusedInv ==
    ASSUME CallInv, Call!Refused \/ Call!Raised, at \in {"gate", "lane", "send"},
           UNCHANGED <<adapter, op, leg>>,
           relogged' \in BOOLEAN, misread' \subseteq Call!Legs, working' \subseteq Call!Legs,
           FirstLeg \subseteq working', working' \subseteq misread' \cup FirstLeg
    PROVE  CallInv'
<1> USE DEF Call!Legs
<1>1. (Call!Pair' <=> Call!Pair) /\ FirstLeg' = FirstLeg
  BY DEF Call!Pair, FirstLeg
<1>2. told = "none"
  BY DEF CallInv, Stands
<1>3. stuck' \subseteq {1} /\ (stuck' = stuck \/ stuck' = {1})
  BY DEF Call!Refused, Call!Raised, CallInv, Call!TypeOK
<1>4. CASE op = "stop" /\ leg = 1
  <2>1. at' = "pause" /\ told' = told
    BY <1>4 DEF Call!Refused, Call!Raised
  <2> QED BY <1>1, <1>2, <1>3, <1>4, <2>1 DEF CallInv, Stands, Call!TypeOK, Call!ToldIsTrue
<1>5. CASE ~(op = "stop" /\ leg = 1) /\ Call!Pair /\ leg = 2 /\ Call!Refused
  <2>1. at' = "undo" /\ told' = told
    BY <1>5 DEF Call!Refused
  <2> QED BY <1>1, <1>2, <1>3, <1>5, <2>1 DEF CallInv, Stands, Call!TypeOK, Call!ToldIsTrue
<1>6. CASE ~(op = "stop" /\ leg = 1) /\ ~(Call!Pair /\ leg = 2 /\ Call!Refused)
  <2>1. at' = "told" /\ told' = "rejected"
    BY <1>6 DEF Call!Refused, Call!Raised
  <2>2. Call!Pair /\ leg = 2 => stuck' = {1}
    BY <1>6 DEF Call!Raised
  <2>3. working' \subseteq misread' \cup stuck'
    BY <2>2 DEF FirstLeg
  <2> QED BY <1>1, <1>2, <1>3, <1>6, <2>1, <2>3 DEF CallInv, Stands, Call!TypeOK, Call!ToldIsTrue
<1> QED BY <1>4, <1>5, <1>6

\* An unknown outcome ends the call.
LEMMA UnsureInv ==
    ASSUME CallInv, Call!Unsure, at \in {"lane", "send"}, UNCHANGED <<adapter, op, leg, relogged>>,
           misread' \subseteq Call!Legs, working' \subseteq Call!Legs,
           working' \subseteq misread' \cup Call!Orders \cup FirstLeg
    PROVE  CallInv'
<1> USE DEF Call!Legs
<1>1. (Call!Pair' <=> Call!Pair) /\ FirstLeg' = FirstLeg /\ Call!Orders' = Call!Orders
  BY DEF Call!Pair, FirstLeg, Call!Orders
<1>2. at' = "told" /\ told' = "unknown" /\ stuck' = stuck
  BY DEF Call!Unsure
<1>3. working' \subseteq misread' \cup Call!Orders' \cup FirstLeg'
  BY <1>1
<1>4. Call!ToldIsTrue'
  BY <1>2, <1>3 DEF Call!ToldIsTrue, FirstLeg
<1> QED BY <1>1, <1>2, <1>4 DEF CallInv, Stands, Call!TypeOK

\* The request is sent and answered, or not.
LEMMA CallSendInv == ASSUME CallInv, Call!Send PROVE CallInv'
<1> USE DEF Call!Legs
<1>1. PICK reply \in Call!Answer(adapter) :
        /\ working' \in (CASE reply = "accepted" -> {working \cup Call!Orders}
                           [] reply \in Call!MayHaveRun -> {working, working \cup Call!Orders}
                           [] OTHER -> {working})
        /\ misread' = IF reply \in Call!Misread THEN misread \cup Call!Orders ELSE misread
        /\ IF reply = "401" /\ adapter = "projectx" /\ ~relogged
             THEN at' = "lane" /\ relogged' = TRUE /\ UNCHANGED <<leg, told, stuck>>
             ELSE CASE Call!Verdict(adapter, reply) = "accepted" -> Call!Accepted
                    [] Call!Verdict(adapter, reply) = "unknown" ->
                           Call!Unsure /\ UNCHANGED <<leg, relogged>>
                    [] OTHER ->
                         /\ IF adapter = "projectx" /\ reply = "reset" THEN Call!Raised
                                                                       ELSE Call!Refused
                         /\ UNCHANGED <<leg, relogged>>
  BY DEF Call!Send
<1>2. at = "send" /\ UNCHANGED <<adapter, op>>
  BY DEF Call!Send, Call!call
<1>3. working' \in {working, working \cup Call!Orders}
  BY <1>1
<1>4. reply = "accepted" => working' = working \cup Call!Orders
  <2> SUFFICES ASSUME reply = "accepted" PROVE working' = working \cup Call!Orders
    OBVIOUS
  <2>1. (CASE reply = "accepted" -> {working \cup Call!Orders}
           [] reply \in Call!MayHaveRun -> {working, working \cup Call!Orders}
           [] OTHER -> {working}) = {working \cup Call!Orders}
    BY DEF Call!MayHaveRun
  <2> QED BY <1>1, <2>1
<1>5. reply # "accepted" /\ reply \notin Call!MayHaveRun => working' = working
  <2> SUFFICES ASSUME reply # "accepted", reply \notin Call!MayHaveRun PROVE working' = working
    OBVIOUS
  <2>1. (CASE reply = "accepted" -> {working \cup Call!Orders}
           [] reply \in Call!MayHaveRun -> {working, working \cup Call!Orders}
           [] OTHER -> {working}) = {working}
    OBVIOUS
  <2> QED BY <1>1, <2>1
<1>6. misread' \in {misread, misread \cup Call!Orders}
      /\ (reply \in Call!Misread => misread' = misread \cup Call!Orders)
  BY <1>1
<1>7. /\ Call!Orders \subseteq Call!Legs /\ working' \subseteq Call!Legs
      /\ misread' \subseteq Call!Legs /\ misread \subseteq misread'
  BY <1>3, <1>6 DEF Call!Orders, CallInv, Call!TypeOK
<1>8. /\ FirstLeg \subseteq working /\ working \subseteq working'
      /\ working \subseteq misread \cup FirstLeg /\ told = "none"
  BY <1>2, <1>3 DEF CallInv, Stands
<1>9. CASE reply = "401" /\ adapter = "projectx" /\ ~relogged
  <2>1. at' = "lane" /\ relogged' = TRUE /\ UNCHANGED <<leg, told, stuck>>
    BY <1>1, <1>9
  <2>2. working' = working
    BY <1>5, <1>9 DEF Call!MayHaveRun
  <2>3. (Call!Pair' <=> Call!Pair) /\ FirstLeg' = FirstLeg
    BY <1>2, <2>1 DEF Call!Pair, FirstLeg
  <2> QED BY <1>2, <1>7, <1>8, <2>1, <2>2, <2>3
        DEF CallInv, Stands, Call!TypeOK, Call!ToldIsTrue
<1>10. CASE ~(reply = "401" /\ adapter = "projectx" /\ ~relogged)
             /\ Call!Verdict(adapter, reply) = "accepted"
  <2>1. Call!Accepted /\ reply = "accepted" /\ stuck' = stuck
    BY <1>1, <1>10, Verdicts DEF Call!Accepted
  <2>2. CASE Call!Pair /\ leg = 1
    <3>1. at' = "gate" /\ leg' = 2 /\ relogged' = FALSE /\ UNCHANGED told
      BY <2>1, <2>2 DEF Call!Accepted
    <3>2. Call!Orders = {1} /\ Call!Pair'
      BY <1>2, <2>2 DEF Call!Orders, Call!Pair
    <3>3. FirstLeg' = {1} /\ FirstLeg = {} /\ working' = working \cup {1}
      BY <1>4, <2>1, <2>2, <3>1, <3>2 DEF FirstLeg
    <3> QED BY <1>2, <1>7, <1>8, <2>1, <3>1, <3>2, <3>3
          DEF CallInv, Stands, Call!TypeOK, Call!ToldIsTrue
  <2>3. CASE ~(Call!Pair /\ leg = 1)
    <3>1. at' = "told" /\ told' = "accepted" /\ UNCHANGED <<leg, relogged>>
      BY <2>1, <2>3 DEF Call!Accepted
    <3>2. leg \in {1, 2} /\ op \in {"stop", "oco"}
      BY DEF CallInv, Call!TypeOK
    <3>3. CASE op = "stop"
      <4>1. Call!Orders = {leg} /\ FirstLeg = {} /\ op' = "stop"
        BY <1>2, <3>3 DEF Call!Orders, FirstLeg, Call!Pair
      <4>2. leg' \in working' /\ working' \subseteq {leg'} \cup misread'
        BY <1>4, <1>7, <1>8, <2>1, <3>1, <4>1
      <4>3. Call!ToldIsTrue'
        BY <3>1, <4>1, <4>2 DEF Call!ToldIsTrue
      <4> QED BY <1>2, <1>7, <2>1, <3>1, <4>3 DEF CallInv, Stands, Call!TypeOK, Call!Pair
    <3>4. CASE op = "oco"
      <4>1. working' = {1, 2}
        BY <1>4, <1>7, <1>8, <2>1, <2>3, <3>2, <3>4 DEF Call!Orders, FirstLeg, Call!Pair
      <4>2. Call!ToldIsTrue'
        BY <1>2, <3>1, <3>4, <4>1 DEF Call!ToldIsTrue
      <4> QED BY <1>2, <1>7, <2>1, <3>1, <4>2 DEF CallInv, Stands, Call!TypeOK, Call!Pair
    <3> QED BY <3>2, <3>3, <3>4
  <2> QED BY <2>2, <2>3
<1>11. CASE ~(reply = "401" /\ adapter = "projectx" /\ ~relogged)
             /\ Call!Verdict(adapter, reply) = "unknown"
  <2>1. Call!Unsure /\ UNCHANGED <<leg, relogged>>
    BY <1>1, <1>11
  <2>2. working' \subseteq misread' \cup Call!Orders \cup FirstLeg
    BY <1>3, <1>7, <1>8
  <2> QED BY <1>2, <1>7, <2>1, <2>2, UnsureInv
<1>12. CASE ~(reply = "401" /\ adapter = "projectx" /\ ~relogged)
             /\ Call!Verdict(adapter, reply) = "rejected"
  <2>1. (Call!Refused \/ Call!Raised) /\ UNCHANGED <<leg, relogged>>
    BY <1>1, <1>12
  <2>2. working' \subseteq misread' \cup FirstLeg
    <3>1. CASE reply \in Call!Misread
      BY <1>3, <1>6, <1>8, <3>1
    <3>2. CASE reply \notin Call!Misread
      BY <1>1, <1>5, <1>7, <1>8, <1>12, <3>2, Verdicts
    <3> QED BY <3>1, <3>2
  <2>3. relogged' \in BOOLEAN
    BY <2>1 DEF CallInv, Call!TypeOK
  <2> QED BY <1>2, <1>7, <1>8, <2>1, <2>2, <2>3, RefusedInv
<1> QED BY <1>9, <1>10, <1>11, <1>12, Verdicts

\* Every step of a call keeps the invariant.
LEMMA CallStep == ASSUME CallInv, Call!Next PROVE CallInv'
<1> USE DEF Call!Legs
<1>1. CASE Call!Gate \/ Call!Lane
  <2>1. /\ at \in {"gate", "lane"} /\ UNCHANGED <<adapter, op, leg, relogged, working, misread>>
        /\ \/ at' \in {"lane", "send"} /\ told' = told /\ stuck' = stuck
           \/ Call!Refused \/ Call!Raised
           \/ at = "lane" /\ Call!Unsure
    BY <1>1 DEF Call!Gate, Call!Lane, Call!call
  <2>2. /\ FirstLeg \subseteq working /\ working \subseteq misread \cup FirstLeg
        /\ relogged \in BOOLEAN /\ working \subseteq Call!Legs /\ misread \subseteq Call!Legs
    BY <2>1 DEF CallInv, Stands, Call!TypeOK
  <2>3. CASE at' \in {"lane", "send"} /\ told' = told /\ stuck' = stuck
    BY <2>1, <2>3 DEF CallInv, Stands, FirstLeg, Call!TypeOK, Call!ToldIsTrue, Call!Pair
  <2>4. CASE Call!Refused \/ Call!Raised
    BY <2>1, <2>2, <2>4, RefusedInv
  <2>5. CASE at = "lane" /\ Call!Unsure
    BY <2>1, <2>2, <2>5, UnsureInv
  <2> QED BY <2>1, <2>3, <2>4, <2>5
<1>2. CASE Call!Retry
  BY <1>2 DEF Call!Retry, Call!call, CallInv, Stands, FirstLeg, Call!TypeOK, Call!ToldIsTrue, Call!Pair
<1>3. CASE Call!Undo
  <2>1. /\ at = "undo" /\ at' = "told" /\ told' = "rejected"
        /\ UNCHANGED <<adapter, op, leg, relogged, misread>>
        /\ working' \in {working, working \ {1}} /\ stuck' \subseteq {1}
        /\ stuck' = {1} \/ working' = working \ {1}
    BY <1>3 DEF Call!Undo, Call!call, CallInv, Call!TypeOK
  <2>2. working \subseteq misread \cup {1}
    BY <2>1 DEF CallInv, Stands, FirstLeg
  <2>3. working' \subseteq misread' \cup stuck'
    BY <2>1, <2>2
  <2> QED BY <2>1, <2>3 DEF CallInv, Stands, Call!TypeOK, Call!ToldIsTrue, Call!Pair
<1>4. CASE Call!Done
  BY <1>4 DEF Call!Done, Call!vars, CallInv, Stands, FirstLeg, Call!TypeOK, Call!ToldIsTrue, Call!Pair,
     Call!Orders
<1> QED BY <1>1, <1>2, <1>3, <1>4, CallSendInv DEF Call!Next

\* The invariant reads no other variable.
LEMMA CallStutter == ASSUME CallInv, UNCHANGED CallVars PROVE CallInv'
BY DEF CallVars, CallInv, Stands, FirstLeg, Call!TypeOK, Call!ToldIsTrue, Call!Pair, Call!Orders

-----------------------------------------------------------------------------
(* LoginClient: a session holds one of the user's logins.                  *)
(* One client at a time connects, only while the session has none; every   *)
(* other client that is not being closed is the session's.                 *)

\* One client connects, and the session has none then.
OneConnects ==
    /\ \A c, d \in Client!Client : state[c] = "connecting" /\ state[d] = "connecting" => c = d
    /\ ensure \in {"connecting", "retry", "asking"} => client = 0
    /\ \A c \in Client!Client : state[c] \in {"up", "down"} => c = client

ClientInv == Client!TypeOK /\ OneConnects

\* A session begins without a client.
LEMMA ClientInit == ASSUME Client!Init PROVE ClientInv
<1> USE ClientAssumption
<1>1. 0 \in 0 .. MaxPastes /\ 0 \in 0 .. MaxClients /\ closed \in BOOLEAN
  <2>1. closed \in BOOLEAN
    BY Zenon DEF Client!Init
  <2> QED BY <2>1
<1> QED BY <1>1 DEF Client!Init, ClientInv, Client!TypeOK, OneConnects

\* A client the session gives up is closed.
LEMMA RetireGives ==
    ASSUME ClientInv
    PROVE  LET st == Client!Retire(client, state)
           IN /\ st \in [Client!Client -> {"none", "connecting", "up", "down", "closing", "gone"}]
              /\ \A c \in Client!Client : st[c] = IF c = client THEN "closing" ELSE state[c]
<1> USE ClientAssumption
<1>1. CASE client = 0
  <2>1. 0 \notin Client!Client
    BY DEF Client!Client
  <2> QED BY <1>1, <2>1 DEF ClientInv, Client!TypeOK, Client!Retire
<1>2. CASE client # 0
  BY <1>2 DEF ClientInv, Client!TypeOK, Client!Retire
<1> QED BY <1>1, <1>2

\* A client is made when none connects and the session has none.
LEMMA MakeInv ==
    ASSUME ClientInv, NEW st, NEW n \in 1 .. 2, Client!Make(n, st),
           st \in [Client!Client -> {"none", "connecting", "up", "down", "closing", "gone"}],
           \A c \in Client!Client : st[c] \notin {"connecting", "up", "down"},
           client' = 0, UNCHANGED <<creds, closed>>
    PROVE  ClientInv'
<1> USE ClientAssumption
<1>1. PICK c \in Client!Client :
        /\ state' = [st EXCEPT ![c] = "connecting"]
        /\ with' = [with EXCEPT ![c] = creds]
  BY DEF Client!Make
<1>2. ensure' = "connecting" /\ attempt' = n
  BY DEF Client!Make
<1>3. \A d \in Client!Client : state'[d] = IF d = c THEN "connecting" ELSE st[d]
  BY <1>1
<1>4. /\ state' \in [Client!Client -> {"none", "connecting", "up", "down", "closing", "gone"}]
      /\ with' \in [Client!Client -> 0 .. MaxPastes]
  BY <1>1 DEF ClientInv, Client!TypeOK
<1>5. /\ client' \in 0 .. MaxClients /\ attempt' \in 1 .. 2 /\ 0 \notin Client!Client
      /\ creds' \in 0 .. MaxPastes /\ closed' \in BOOLEAN
  BY <1>2 DEF ClientInv, Client!TypeOK, Client!Client
<1>6. /\ \E d \in Client!Client : state'[d] = "connecting"
      /\ \A d \in Client!Client : state'[d] = "connecting" => d = c
      /\ \A d \in Client!Client : state'[d] \notin {"up", "down"}
  BY <1>3
<1> QED BY <1>2, <1>4, <1>5, <1>6 DEF ClientInv, Client!TypeOK, OneConnects

\* Every step of the session, its clients and the network keeps the invariant.
LEMMA ClientStep == ASSUME ClientInv, Client!Next PROVE ClientInv'
<1> USE ClientAssumption
<1>0. /\ creds \in 0 .. MaxPastes /\ client \in 0 .. MaxClients /\ 0 \in 0 .. MaxClients
      /\ 0 \notin Client!Client /\ closed \in BOOLEAN
      /\ ensure # "connecting" => \A c \in Client!Client : state[c] # "connecting"
  BY DEF ClientInv, Client!TypeOK, Client!Client
<1>1. CASE Client!Ensure
  <2>1. CASE client # 0
    <3>1. ensure' = "grace" /\ UNCHANGED <<creds, client, closed, state, with, attempt>>
      BY <1>1, <2>1 DEF Client!Ensure
    <3>2. ensure = "idle"
      BY <1>1 DEF Client!Ensure
    <3> QED BY <3>1, <3>2 DEF ClientInv, Client!TypeOK, OneConnects
  <2>2. CASE client = 0
    <3>1. Client!Make(1, state) /\ ensure = "idle" /\ UNCHANGED <<creds, client, closed>>
      BY <1>1, <2>2 DEF Client!Ensure
    <3>2. \A c \in Client!Client : state[c] \notin {"connecting", "up", "down"}
      BY <1>0, <2>2, <3>1 DEF ClientInv, OneConnects
    <3>3. state \in [Client!Client -> {"none", "connecting", "up", "down", "closing", "gone"}]
      BY DEF ClientInv, Client!TypeOK
    <3> QED BY <2>2, <3>1, <3>2, <3>3, MakeInv
  <2> QED BY <2>1, <2>2
<1>2. CASE Client!GraceEnds
  <2>1. CASE Client!Connected
    <3>1. ensure' = "idle" /\ UNCHANGED <<creds, client, closed, state, with, attempt>>
      BY <1>2, <2>1 DEF Client!GraceEnds
    <3>2. ensure = "grace"
      BY <1>2 DEF Client!GraceEnds
    <3> QED BY <3>1, <3>2 DEF ClientInv, Client!TypeOK, OneConnects
  <2>2. CASE ~Client!Connected
    <3> DEFINE st == Client!Retire(client, state)
    <3>1. Client!Make(1, st) /\ ensure = "grace" /\ client' = 0 /\ UNCHANGED <<creds, closed>>
      BY <1>2, <2>2 DEF Client!GraceEnds
    <3>2. /\ st \in [Client!Client -> {"none", "connecting", "up", "down", "closing", "gone"}]
          /\ \A c \in Client!Client : st[c] = IF c = client THEN "closing" ELSE state[c]
      BY RetireGives
    <3>3. \A c \in Client!Client : st[c] \notin {"connecting", "up", "down"}
      BY <1>0, <3>1, <3>2 DEF ClientInv, OneConnects
    <3> HIDE DEF st
    <3> QED BY <3>1, <3>2, <3>3, MakeInv
  <2> QED BY <2>1, <2>2
<1>3. CASE Client!Again
  <2>1. Client!Make(2, state) /\ ensure = "retry" /\ UNCHANGED <<creds, client, closed>>
    BY <1>3 DEF Client!Again
  <2>2. client = 0
    BY <2>1 DEF ClientInv, OneConnects
  <2>3. \A c \in Client!Client : state[c] \notin {"connecting", "up", "down"}
    BY <1>0, <2>1, <2>2 DEF ClientInv, OneConnects
  <2>4. state \in [Client!Client -> {"none", "connecting", "up", "down", "closing", "gone"}]
    BY DEF ClientInv, Client!TypeOK
  <2> QED BY <2>1, <2>2, <2>3, <2>4, MakeInv
<1>4. CASE Client!Raises
  BY <1>4 DEF Client!Raises, ClientInv, Client!TypeOK, OneConnects
<1>5. CASE Client!Adopt \/ Client!Close
  <2>1. /\ creds' \in 0 .. MaxPastes /\ closed' \in BOOLEAN
        /\ state' = Client!Retire(client, state) /\ client' = 0
        /\ UNCHANGED <<with, ensure, attempt>>
    <3>1. CASE Client!Adopt
      BY <1>0, <3>1 DEF Client!Adopt
    <3>2. CASE Client!Close
      <4>1. closed' \in BOOLEAN
        BY <3>2, Zenon DEF Client!Close
      <4> QED BY <1>0, <3>2, <4>1 DEF Client!Close
    <3> QED BY <1>5, <3>1, <3>2
  <2>2. \A c \in Client!Client : state'[c] = IF c = client THEN "closing" ELSE state[c]
    BY <2>1, RetireGives
  <2>3. state' \in [Client!Client -> {"none", "connecting", "up", "down", "closing", "gone"}]
    BY <2>1, RetireGives
  <2>4. \A c \in Client!Client : state'[c] = "connecting" <=> state[c] = "connecting"
    BY <1>0, <2>2 DEF ClientInv, Client!TypeOK
  <2> QED BY <1>0, <2>1, <2>2, <2>3, <2>4 DEF ClientInv, Client!TypeOK, OneConnects
<1>6. ASSUME NEW c \in Client!Client, Client!LogsIn(c) PROVE ClientInv'
  <2>1. /\ state[c] = "connecting" /\ client' = c /\ ensure' = "idle"
        /\ state' = [state EXCEPT ![c] = "up"] /\ UNCHANGED <<creds, with, attempt, closed>>
    BY <1>6 DEF Client!LogsIn
  <2>2. state' \in [Client!Client -> {"none", "connecting", "up", "down", "closing", "gone"}]
    BY <2>1 DEF ClientInv, Client!TypeOK
  <2>3. \A d \in Client!Client : state'[d] = IF d = c THEN "up" ELSE state[d]
    BY <2>1 DEF ClientInv, Client!TypeOK
  <2>4. client = 0 /\ \A d \in Client!Client : state[d] \notin {"up", "down"}
    BY <1>0, <2>1 DEF ClientInv, Client!TypeOK, OneConnects
  <2>5. \A d \in Client!Client : state'[d] # "connecting"
    BY <2>1, <2>3 DEF ClientInv, OneConnects
  <2>6. c \in 0 .. MaxClients
    BY DEF Client!Client
  <2> QED BY <1>0, <2>1, <2>2, <2>3, <2>4, <2>5, <2>6 DEF ClientInv, Client!TypeOK, OneConnects
<1>7. ASSUME NEW c \in Client!Client, Client!ConnectFails(c) PROVE ClientInv'
  <2>1. /\ state[c] = "connecting" /\ ensure' \in {"idle", "asking", "retry"}
        /\ state' = [state EXCEPT ![c] = "closing"]
        /\ UNCHANGED <<creds, client, with, attempt, closed>>
    BY <1>0, <1>7 DEF Client!ConnectFails, Client!Retire
  <2>2. state' \in [Client!Client -> {"none", "connecting", "up", "down", "closing", "gone"}]
    BY <2>1 DEF ClientInv, Client!TypeOK
  <2>3. \A d \in Client!Client : state'[d] = IF d = c THEN "closing" ELSE state[d]
    BY <2>1 DEF ClientInv, Client!TypeOK
  <2>4. client = 0
    BY <1>0, <2>1 DEF ClientInv, Client!TypeOK, OneConnects
  <2>5. \A d \in Client!Client : state'[d] # "connecting"
    BY <2>1, <2>3 DEF ClientInv, OneConnects
  <2> QED BY <1>0, <2>1, <2>2, <2>3, <2>4, <2>5 DEF ClientInv, Client!TypeOK, OneConnects
<1>8. ASSUME NEW c \in Client!Client, Client!Disconnected(c) \/ Client!Flicker(c) PROVE ClientInv'
  <2>1. PICK s \in {"up", "down", "gone"} : state' = [state EXCEPT ![c] = s]
    BY <1>8 DEF Client!Disconnected, Client!Flicker, ClientInv, Client!TypeOK
  <2>2. /\ state[c] \in {"closing", "up", "down"} /\ UNCHANGED <<creds, client, with, ensure, attempt, closed>>
        /\ s = "gone" <=> state[c] = "closing"
    BY <1>8, <2>1 DEF Client!Disconnected, Client!Flicker, ClientInv, Client!TypeOK
  <2>3. state' \in [Client!Client -> {"none", "connecting", "up", "down", "closing", "gone"}]
    BY <2>1 DEF ClientInv, Client!TypeOK
  <2>4. \A d \in Client!Client : state'[d] = IF d = c THEN s ELSE state[d]
    BY <2>1 DEF ClientInv, Client!TypeOK
  <2>5. \A d \in Client!Client : state'[d] = "connecting" <=> state[d] = "connecting"
    BY <2>2, <2>4
  <2>6. client # 0 => state'[client] \in {"up", "down"}
    BY <2>2, <2>4 DEF ClientInv, Client!TypeOK, OneConnects, Client!Client
  <2> QED BY <1>0, <2>2, <2>3, <2>4, <2>5, <2>6 DEF ClientInv, Client!TypeOK, OneConnects
<1> QED BY <1>1, <1>2, <1>3, <1>4, <1>5, <1>6, <1>7, <1>8 DEF Client!Next

\* The instance counts as the library does.
LEMMA ClientCount == ASSUME NEW S PROVE Client!Cardinality(S) = Cardinality(S)
BY Zenon DEF Cardinality, Client!Cardinality

\* One client connects or one is the session's, not both.
LEMMA ClientSafe == ASSUME ClientInv PROVE Client!OneLogin
<1>1. \A c \in Client!Holding : c = client \/ state[c] = "connecting"
  BY DEF ClientInv, OneConnects, Client!Holding
<1>2. \A c, d \in Client!Holding : c = d
  BY DEF ClientInv, Client!TypeOK, OneConnects, Client!Holding, Client!Client
<1>3. Cardinality(Client!Holding) <= 1
  <2>1. CASE Client!Holding = {}
    BY <2>1, FS_EmptySet
  <2>2. CASE Client!Holding # {}
    <3>1. PICK c : Client!Holding = {c}
      BY <1>2, <2>2
    <3>2. Cardinality({c}) = 1
      BY FS_Singleton
    <3> QED BY <3>1, <3>2
  <2> QED BY <2>1, <2>2
<1> QED BY <1>1, <1>3, ClientCount DEF Client!OneLogin

\* The invariant reads no other variable.
LEMMA ClientStutter == ASSUME ClientInv, UNCHANGED ClientVars PROVE ClientInv'
BY DEF ClientVars, ClientInv, Client!TypeOK, OneConnects

-----------------------------------------------------------------------------
(* NewsLock: no entry passes the gate of an open window, and a flatten     *)
(* without errors has closed what it found.                                *)
(* A memo that says "not locked" was true of the calendar and the settings *)
(* as they still are, at the time it was taken; a window that has been     *)
(* open for as long as the memo lives was open then.  A position that a    *)
(* flatten had to close belongs to a trade that has entered, and none      *)
(* enters twice.                                                           *)

\* A memo that lets entries pass.
MemoTrue ==
    memo # News!NoMemo /\ ~memo.locked =>
        mode = "off" \/ \A row \in calendar :
                            ~(row[2] - Before <= memo.at /\ memo.at <= row[2] + After)

Entered == {t \in NewsTrade : trade[t] = "entered"}

\* What a flatten has found and done so far.
Sweeps ==
    /\ sweep \in [keys : SUBSET News!Rows, had : SUBSET NewsTrade, seen : SUBSET NewsTrade,
                  errors : BOOLEAN, stage : {"none", "read", "liquidate", "done"}]
    /\ sweep.had \subseteq Entered /\ clean \subseteq Entered
    /\ sweep.stage = "read" => sweep.had \subseteq open
    /\ sweep.stage = "liquidate" => sweep.had \subseteq sweep.seen
    /\ sweep.stage = "done" /\ ~sweep.errors => sweep.had \cap open = {}

Calendars == calendar \subseteq News!Rows /\ source \in News!Deliveries
Gates ==
    /\ now \in 0 .. MaxTime /\ mode \in {"off", "block", "flatten"}
    /\ memo \in [at : Int, locked : BOOLEAN] /\ memo.at \in -1 .. now
    /\ trade \in [NewsTrade -> {"idle", "skipped", "waiting", "entered"}]
Loops ==
    /\ nLoop \in {"asleep", "refreshing", "tick", "sweeping"}
    /\ (nLoop = "sweeping") = (sweep.stage # "none")
    /\ flattened \subseteq News!Rows /\ failed \subseteq flattened

NewsInv ==
    /\ Gates /\ Calendars /\ Loops /\ MemoTrue /\ Sweeps
    /\ open \subseteq Entered /\ News!CleanMeansFlat

\* The process starts without a memo and asleep.
LEMMA NewsInit == ASSUME News!Init PROVE NewsInv
<1> USE NewsAssumption
<1>1. News!NoMemo \in [at : Int, locked : BOOLEAN] /\ News!NoMemo.at \in -1 .. 0
  BY DEF News!NoMemo
<1>2. Gates
  BY <1>1 DEF News!Init, Gates
<1>3. \A x \in News!Deliveries : x \subseteq News!Rows
  BY DEF News!Deliveries
<1>4. Calendars
  BY <1>3 DEF News!Init, Calendars
<1>5. Sweeps /\ Loops /\ MemoTrue /\ open \subseteq Entered /\ News!CleanMeansFlat
  BY DEF News!Init, News!NoSweep, Sweeps, Loops, MemoTrue, News!CleanMeansFlat
<1> QED BY <1>2, <1>4, <1>5 DEF NewsInv

\* A memo that holds and lets pass keeps every window that is long open away.
LEMMA MemoGates ==
    ASSUME NewsInv, ~News!Locked
    PROVE  ~\E row \in calendar :
              mode # "off" /\ News!Active(row) /\ row[2] - Before <= now - MemoLife
<1> USE NewsAssumption
<1> SUFFICES ASSUME NEW row \in calendar, mode # "off", News!Active(row),
                    row[2] - Before <= now - MemoLife
             PROVE  FALSE
    OBVIOUS
<1>1. row[2] \in Int /\ now \in Int /\ memo.at \in Int /\ memo.at <= now
  BY DEF NewsInv, Gates, Calendars, News!Rows
<1>2. row[2] - Before <= now /\ now <= row[2] + After
  BY DEF News!Active
<1>3. CASE News!MemoHolds
  <2>1. memo # News!NoMemo /\ now - memo.at < MemoLife /\ ~memo.locked
    BY <1>3 DEF News!MemoHolds, News!Locked
  <2>2. ~(row[2] - Before <= memo.at /\ memo.at <= row[2] + After)
    BY <2>1 DEF NewsInv, MemoTrue
  <2> QED BY <1>1, <1>2, <2>1, <2>2
<1>4. CASE ~News!MemoHolds
  BY <1>4 DEF News!Locked, News!Windows
<1> QED BY <1>3, <1>4

\* The gate: a new memo is true of the calendar and the settings of now.
LEMMA SignalInv == ASSUME NewsInv, NEW t \in NewsTrade, News!Signal(t) PROVE NewsInv'
<1> USE NewsAssumption
<1>1. /\ trade[t] = "idle"
      /\ trade' = [trade EXCEPT ![t] = IF News!Locked THEN "skipped" ELSE "waiting"]
      /\ memo' = IF News!MemoHolds THEN memo ELSE [at |-> now, locked |-> News!Locked]
      /\ UNCHANGED <<now, mode, calendar, source, open, nLoop, used, sweep, flattened, failed,
                     clean, edits, fetches, nFaults>>
  BY DEF News!Signal, News!feedVars, News!loopVars
<1>2. trade' \in [NewsTrade -> {"idle", "skipped", "waiting", "entered"}] /\ Entered' = Entered
  BY <1>1 DEF NewsInv, Gates, Entered
<1>3. News!Locked \in BOOLEAN
  BY DEF NewsInv, Gates, News!Locked
<1>4. memo' \in [at : Int, locked : BOOLEAN] /\ memo'.at \in -1 .. now /\ MemoTrue'
  <2>1. CASE News!MemoHolds
    BY <1>1, <2>1 DEF NewsInv, Gates, MemoTrue, News!NoMemo
  <2>2. CASE ~News!MemoHolds
    <3>1. memo' = [at |-> now, locked |-> News!Locked] /\ now \in 0 .. MaxTime
      BY <1>1, <2>2 DEF NewsInv, Gates
    <3>2. memo' \in [at : Int, locked : BOOLEAN] /\ memo'.at \in -1 .. now
      BY <1>3, <3>1
    <3>3. memo'.at = now /\ memo'.locked = News!Locked
      BY <3>1
    <3>4. ~News!Locked => mode = "off" \/ \A row \in calendar : ~News!Active(row)
      BY <2>2 DEF News!Locked, News!Windows
    <3> QED BY <1>1, <3>2, <3>3, <3>4 DEF MemoTrue, News!Active
  <2> QED BY <2>1, <2>2
<1> QED BY <1>1, <1>2, <1>4 DEF NewsInv, Gates, Calendars, Loops, Sweeps, News!CleanMeansFlat,
          News!Rows, News!Deliveries

\* An entry is filled once.
LEMMA EnterNewsInv == ASSUME NewsInv, NEW t \in NewsTrade, News!Enter(t) PROVE NewsInv'
<1>1. /\ trade[t] = "waiting" /\ trade' = [trade EXCEPT ![t] = "entered"]
      /\ open' = open \cup {t}
      /\ UNCHANGED <<now, mode, calendar, source, memo, nLoop, used, sweep, flattened, failed,
                     clean, edits, fetches, nFaults>>
  BY DEF News!Enter, News!feedVars, News!loopVars
<1>2. trade' \in [NewsTrade -> {"idle", "skipped", "waiting", "entered"}]
  BY <1>1 DEF NewsInv, Gates
<1>3. Entered' = Entered \cup {t} /\ t \notin Entered
  BY <1>1 DEF NewsInv, Gates, Entered
<1> QED BY <1>1, <1>2, <1>3 DEF NewsInv, Gates, Calendars, Loops, MemoTrue, Sweeps,
          News!CleanMeansFlat, News!NoMemo, News!Rows, News!Deliveries

\* Time, settings and the publisher.
LEMMA NewsOutsideInv ==
    ASSUME NewsInv,
           \/ News!Tick \/ News!Reschedule
           \/ \E m \in {"off", "block", "flatten"} \ {mode} : News!SaveSettings(m)
    PROVE  NewsInv'
<1> USE NewsAssumption DEF News!feedVars, News!loopVars
<1>1. CASE News!Tick
  <2>1. now' \in 0 .. MaxTime /\ now' = now + 1
    BY <1>1 DEF News!Tick, NewsInv, Gates
  <2>2. memo.at \in -1 .. now'
    BY <2>1 DEF NewsInv, Gates
  <2> QED BY <1>1, <2>1, <2>2 DEF News!Tick, NewsInv, Gates, Calendars, Loops, MemoTrue, Sweeps,
            Entered, News!CleanMeansFlat, News!NoMemo, News!Rows, News!Deliveries
<1>2. CASE News!Reschedule
  BY <1>2 DEF News!Reschedule, NewsInv, Gates, Calendars, Loops, MemoTrue, Sweeps, Entered,
    News!CleanMeansFlat, News!NoMemo, News!Rows, News!Deliveries
<1>3. ASSUME NEW m \in {"off", "block", "flatten"}, News!SaveSettings(m) PROVE NewsInv'
  <2>1. mode' = m /\ memo' = News!NoMemo
    BY <1>3 DEF News!SaveSettings, News!Saved
  <2>2. /\ News!NoMemo \in [at : Int, locked : BOOLEAN] /\ News!NoMemo.at = -1
        /\ now \in 0 .. MaxTime
    BY DEF News!NoMemo, NewsInv, Gates
  <2>3. memo'.at \in -1 .. now
    BY <2>1, <2>2
  <2> QED BY <1>3, <2>1, <2>2, <2>3 DEF News!SaveSettings, NewsInv, Gates, Calendars, Loops, MemoTrue,
            Sweeps, Entered, News!CleanMeansFlat, News!NoMemo, News!Rows, News!Deliveries
<1> QED BY <1>1, <1>2, <1>3

\* The loop looks, and refreshes the feed; a merge keeps to the rows there are.
LEMMA NewsLoopInv ==
    ASSUME NewsInv, News!Wake \/ News!Refreshed \/ News!LoopTick PROVE NewsInv'
<1> USE NewsAssumption DEF News!feedVars, News!loopVars
<1>1. CASE News!Wake
  <2>1. nLoop' \in {"asleep", "refreshing"} /\ sweep.stage = "none"
    BY <1>1 DEF News!Wake, NewsInv, Loops
  <2> QED BY <1>1, <2>1 DEF News!Wake, NewsInv, Gates, Calendars, Loops, MemoTrue, Sweeps, Entered,
            News!CleanMeansFlat, News!NoMemo, News!Rows, News!Deliveries
<1>2. CASE News!Refreshed
  <2>1. /\ nLoop = "refreshing" /\ nLoop' = "tick"
        /\ UNCHANGED <<now, mode, source, trade, open, used, sweep, flattened, failed, clean,
                       edits, nFaults>>
        /\ News!Refresh \/ UNCHANGED <<fetches, calendar, memo>>
    BY <1>2 DEF News!Refreshed
  <2>2. CASE News!Refresh
    <3>1. PICK new \in SUBSET source :
            /\ calendar' = News!Merge(calendar, new)
            /\ memo' = News!NoMemo
      BY <2>2 DEF News!Refresh
    <3>2. new \subseteq News!Rows
      BY DEF NewsInv, Calendars, News!Deliveries
    <3>3. calendar' \subseteq calendar \cup new
      BY <3>1 DEF News!Merge
    <3>4. /\ News!NoMemo \in [at : Int, locked : BOOLEAN] /\ News!NoMemo.at = -1
          /\ now \in 0 .. MaxTime
      BY DEF News!NoMemo, NewsInv, Gates
    <3>5. memo'.at \in -1 .. now
      BY <3>1, <3>4
    <3> QED BY <2>1, <3>1, <3>2, <3>3, <3>4, <3>5 DEF NewsInv, Gates, Calendars, Loops, MemoTrue,
              Sweeps, Entered, News!CleanMeansFlat, News!NoMemo, News!Rows, News!Deliveries
  <2>3. CASE UNCHANGED <<fetches, calendar, memo>>
    BY <2>1, <2>3 DEF NewsInv, Gates, Calendars, Loops, MemoTrue, Sweeps, Entered,
      News!CleanMeansFlat, News!NoMemo, News!Rows, News!Deliveries
  <2> QED BY <2>1, <2>2, <2>3
<1>3. CASE News!LoopTick
  <2>1. /\ nLoop = "tick"
        /\ UNCHANGED <<now, mode, calendar, source, memo, trade, open, used, flattened, failed,
                       clean, edits, fetches, nFaults>>
    BY <1>3 DEF News!LoopTick
  <2>2. CASE nLoop' = "asleep" /\ UNCHANGED sweep
    BY <2>1, <2>2 DEF NewsInv, Gates, Calendars, Loops, MemoTrue, Sweeps, Entered,
      News!CleanMeansFlat, News!NoMemo, News!Rows, News!Deliveries
  <2>3. CASE /\ nLoop' = "sweeping"
             /\ sweep' = [News!NoSweep EXCEPT !.keys = News!Needed, !.had = open,
                                              !.stage = "read"]
    <3>1. sweep' = [keys |-> News!Needed, had |-> open, seen |-> {}, errors |-> FALSE,
                    stage |-> "read"]
      BY <2>3 DEF News!NoSweep
    <3>2. News!Needed \subseteq News!Rows
      BY DEF News!Needed, News!Windows, NewsInv, Calendars
    <3>3. open \subseteq Entered /\ Entered' = Entered /\ open \subseteq NewsTrade
      BY <2>1 DEF NewsInv, Entered
    <3>4. Sweeps'
      BY <2>1, <3>1, <3>2, <3>3 DEF NewsInv, Sweeps, News!Rows
    <3> QED BY <2>1, <2>3, <3>1, <3>3, <3>4 DEF NewsInv, Gates, Calendars, Loops, MemoTrue,
              News!CleanMeansFlat, News!NoMemo, News!Rows, News!Deliveries
  <2> QED BY <1>3, <2>2, <2>3 DEF News!LoopTick
<1> QED BY <1>1, <1>2, <1>3

\* The flatten: read, liquidate, judge.
LEMMA SweepInv ==
    ASSUME NewsInv, News!SweepReads \/ News!SweepLiquidates \/ News!SweepEnds PROVE NewsInv'
<1> USE NewsAssumption DEF News!feedVars, News!loopVars
<1>1. CASE News!SweepReads
  <2>1. /\ sweep.stage = "read"
        /\ UNCHANGED <<now, mode, calendar, source, memo, trade, open, nLoop, used, flattened,
                       failed, clean, edits, fetches>>
        /\ \/ sweep' = [sweep EXCEPT !.seen = open, !.stage = "liquidate"]
           \/ sweep' = [sweep EXCEPT !.errors = TRUE, !.stage = "done"]
    BY <1>1 DEF News!SweepReads
  <2>2. open \subseteq NewsTrade /\ Entered' = Entered
    BY <2>1 DEF NewsInv, Entered
  <2>3. Sweeps' /\ sweep'.stage # "none"
    <3>1. CASE sweep' = [sweep EXCEPT !.seen = open, !.stage = "liquidate"]
      BY <2>1, <2>2, <3>1 DEF NewsInv, Sweeps, News!Rows
    <3>2. CASE sweep' = [sweep EXCEPT !.errors = TRUE, !.stage = "done"]
      BY <2>1, <2>2, <3>2 DEF NewsInv, Sweeps, News!Rows
    <3> QED BY <2>1, <3>1, <3>2
  <2> QED BY <2>1, <2>2, <2>3 DEF NewsInv, Gates, Calendars, Loops, MemoTrue,
            News!CleanMeansFlat, News!NoMemo, News!Rows, News!Deliveries
<1>2. CASE News!SweepLiquidates
  <2>1. PICK raised \in SUBSET sweep.seen, readable \in BOOLEAN : \E kept \in SUBSET raised :
          /\ open' = open \ (sweep.seen \ kept)
          /\ sweep' = [sweep EXCEPT !.stage = "done",
                                    !.errors = News!Judged(raised, kept, readable)]
    BY <1>2 DEF News!SweepLiquidates
  <2>2. PICK kept \in SUBSET raised :
          /\ open' = open \ (sweep.seen \ kept)
          /\ sweep' = [sweep EXCEPT !.stage = "done",
                                    !.errors = News!Judged(raised, kept, readable)]
    BY <2>1
  <2>3. /\ sweep.stage = "liquidate"
        /\ UNCHANGED <<now, mode, calendar, source, memo, trade, nLoop, used, flattened, failed,
                       clean, edits, fetches>>
    BY <1>2 DEF News!SweepLiquidates
  <2>4. Entered' = Entered /\ open' \subseteq open
    BY <2>2, <2>3 DEF Entered
  <2>5. News!Judged(raised, kept, readable) \in BOOLEAN
    BY DEF News!Judged
  <2>6. ~News!Judged(raised, kept, readable) => kept = {}
    BY DEF News!Judged
  <2>7. Sweeps' /\ sweep'.stage # "none"
    BY <2>2, <2>3, <2>4, <2>5, <2>6 DEF NewsInv, Sweeps, News!Rows
  <2> QED BY <2>3, <2>4, <2>7 DEF NewsInv, Gates, Calendars, Loops, MemoTrue,
            News!CleanMeansFlat, News!NoMemo, News!Rows, News!Deliveries
<1>3. CASE News!SweepEnds
  <2>1. /\ sweep.stage = "done" /\ sweep' = News!NoSweep /\ nLoop' = "asleep"
        /\ flattened' = flattened \cup sweep.keys
        /\ failed' = IF sweep.errors THEN failed \cup sweep.keys ELSE failed
        /\ clean' = IF sweep.errors THEN clean ELSE clean \cup sweep.had
        /\ UNCHANGED <<now, mode, calendar, source, memo, trade, open, used, edits, fetches,
                       nFaults>>
    BY <1>3 DEF News!SweepEnds
  <2>2. Entered' = Entered
    BY <2>1 DEF Entered
  <2>3. clean' \subseteq Entered /\ clean' \cap open = {}
    BY <2>1 DEF NewsInv, Sweeps, News!CleanMeansFlat
  <2>4. Sweeps' /\ sweep'.stage = "none"
    BY <2>1, <2>2, <2>3 DEF News!NoSweep, NewsInv, Sweeps, News!Rows
  <2>5. flattened' \subseteq News!Rows /\ failed' \subseteq flattened'
    BY <2>1 DEF NewsInv, Sweeps, Loops
  <2> QED BY <2>1, <2>2, <2>3, <2>4, <2>5 DEF NewsInv, Gates, Calendars, Loops, MemoTrue,
            News!CleanMeansFlat, News!NoMemo, News!Rows, News!Deliveries
<1> QED BY <1>1, <1>2, <1>3

\* A restart forgets the memo and the flatten under way.
LEMMA NewsRestartInv == ASSUME NewsInv, News!Restart PROVE NewsInv'
<1> USE NewsAssumption DEF News!feedVars, News!loopVars
<1>1. /\ memo' = News!NoMemo /\ nLoop' = "asleep" /\ sweep' = News!NoSweep
      /\ flattened' = {} /\ failed' = {}
      /\ trade' = [t \in NewsTrade |-> IF trade[t] = "waiting" THEN "skipped" ELSE trade[t]]
      /\ UNCHANGED <<now, mode, calendar, source, open, used, clean, edits, fetches>>
  BY DEF News!Restart
<1>2. Entered' = Entered /\ trade' \in [NewsTrade -> {"idle", "skipped", "waiting", "entered"}]
  BY <1>1 DEF NewsInv, Gates, Entered
<1>3. /\ News!NoMemo \in [at : Int, locked : BOOLEAN] /\ News!NoMemo.at = -1
      /\ now \in 0 .. MaxTime
  BY DEF News!NoMemo, NewsInv, Gates
<1>4. memo'.at \in -1 .. now
  BY <1>1, <1>3
<1>5. Sweeps' /\ sweep'.stage = "none"
  BY <1>1, <1>2 DEF News!NoSweep, NewsInv, Sweeps
<1> QED BY <1>1, <1>2, <1>3, <1>4, <1>5 DEF NewsInv, Gates, Calendars, Loops, MemoTrue,
          News!CleanMeansFlat, News!NoMemo, News!Rows, News!Deliveries

\* Every step keeps the invariant.
LEMMA NewsStep == ASSUME NewsInv, News!Next PROVE NewsInv'
BY SignalInv, EnterNewsInv, NewsOutsideInv, NewsLoopInv, SweepInv, NewsRestartInv DEF News!Next

\* Only the gate lets an entry wait for its lock.
LEMMA GateHolds == ASSUME NewsInv, News!Next PROVE News!GateStep
<1> SUFFICES ASSUME NEW t \in NewsTrade, trade[t] = "idle", trade'[t] = "waiting"
             PROVE  ~\E row \in calendar :
                       mode # "off" /\ News!Active(row) /\ row[2] - Before <= now - MemoLife
    BY DEF News!GateStep
<1>1. trade \in [NewsTrade -> {"idle", "skipped", "waiting", "entered"}]
  BY DEF NewsInv, Gates
<1>2. PICK s \in NewsTrade : News!Signal(s)
  <2>1. ASSUME NEW s \in NewsTrade, News!Enter(s) PROVE FALSE
    BY <1>1, <2>1 DEF News!Enter
  <2>2. CASE News!Restart
    BY <1>1, <2>2 DEF News!Restart
  <2>3. CASE trade' = trade
    BY <2>3
  <2>4. News!Tick \/ News!Reschedule \/ News!Wake \/ News!Refreshed \/ News!LoopTick
        \/ News!SweepReads \/ News!SweepLiquidates \/ News!SweepEnds
        \/ (\E m \in {"off", "block", "flatten"} \ {mode} : News!SaveSettings(m))
        => trade' = trade
    BY DEF News!Tick, News!Reschedule, News!Wake, News!Refreshed, News!LoopTick, News!SweepReads,
      News!SweepLiquidates, News!SweepEnds, News!SaveSettings
  <2> QED BY <2>1, <2>2, <2>3, <2>4 DEF News!Next
<1>3. trade' = [trade EXCEPT ![s] = IF News!Locked THEN "skipped" ELSE "waiting"]
  BY <1>2 DEF News!Signal
<1>4. ~News!Locked
  BY <1>1, <1>3
<1> QED BY <1>4, MemoGates

\* The invariant contains the type and what a clean flatten promises.
LEMMA NewsSafe == ASSUME NewsInv PROVE News!TypeOK /\ News!CleanMeansFlat
BY DEF NewsInv, Gates, Calendars, Loops, Sweeps, Entered, News!TypeOK

\* The invariant reads no other variable.
LEMMA NewsStutter == ASSUME NewsInv, UNCHANGED NewsVars PROVE NewsInv'
BY DEF NewsVars, NewsInv, Gates, Calendars, Loops, MemoTrue, Sweeps, Entered,
  News!CleanMeansFlat, News!NoMemo, News!Rows, News!Deliveries

-----------------------------------------------------------------------------
(* Sequences whose elements are in a relation with every later one         *)

Pairwise(s, R) == \A i, j \in 1 .. Len(s) : i < j => <<s[i], s[j]>> \in R
Over(S, T, R) == \A x \in S, y \in T : <<x, y>> \in R

\* What the operators on sequences do to the elements.
LEMMA RangeEmpty == \A R : History!Range(<<>>) = {} /\ Pairwise(<<>>, R)
BY DEF History!Range, Pairwise

\* What was in the sequence, and what is appended.
LEMMA RangeAppend ==
    ASSUME NEW S, NEW s \in Seq(S), NEW x \in S
    PROVE  /\ Append(s, x) \in Seq(S) /\ Len(Append(s, x)) = Len(s) + 1
           /\ History!Range(Append(s, x)) = History!Range(s) \cup {x}
           /\ Append(s, x) # <<>>
<1>1. /\ Append(s, x) \in Seq(S) /\ Len(Append(s, x)) = Len(s) + 1 /\ Len(s) \in Nat
      /\ \A i \in 1 .. Len(s) : Append(s, x)[i] = s[i]
      /\ Append(s, x)[Len(s) + 1] = x
  OBVIOUS
<1>2. DOMAIN Append(s, x) = 1 .. Len(s) + 1 /\ DOMAIN s = 1 .. Len(s)
  OBVIOUS
<1>3. History!Range(Append(s, x)) \subseteq History!Range(s) \cup {x}
  BY <1>1, <1>2 DEF History!Range
<1>4. History!Range(s) \subseteq History!Range(Append(s, x)) /\ x \in History!Range(Append(s, x))
  BY <1>1, <1>2 DEF History!Range
<1> QED BY <1>1, <1>3, <1>4

\* The head, and what is in the tail.
LEMMA RangeTail ==
    ASSUME NEW S, NEW s \in Seq(S), s # <<>>
    PROVE  /\ Head(s) \in S /\ Tail(s) \in Seq(S) /\ Len(Tail(s)) = Len(s) - 1
           /\ History!Range(s) = {Head(s)} \cup History!Range(Tail(s))
<1>1. /\ Head(s) \in S /\ Head(s) = s[1] /\ Tail(s) \in Seq(S) /\ Len(Tail(s)) = Len(s) - 1
      /\ Len(s) \in Nat /\ Len(s) >= 1
      /\ \A i \in 1 .. Len(s) - 1 : Tail(s)[i] = s[i + 1]
  OBVIOUS
<1>2. DOMAIN s = 1 .. Len(s) /\ DOMAIN Tail(s) = 1 .. Len(s) - 1
  BY <1>1
<1>3. ASSUME NEW i \in 1 .. Len(s) PROVE s[i] = Head(s) \/ s[i] \in History!Range(Tail(s))
  <2>1. CASE i = 1
    BY <1>1, <2>1
  <2>2. CASE i # 1
    <3>1. i - 1 \in 1 .. Len(s) - 1 /\ Tail(s)[i - 1] = s[i]
      BY <1>1, <2>2
    <3> QED BY <1>2, <3>1 DEF History!Range
  <2> QED BY <2>1, <2>2
<1>4. \A i \in 1 .. Len(s) - 1 : i + 1 \in 1 .. Len(s)
  BY <1>1
<1>5. 1 \in 1 .. Len(s)
  BY <1>1
<1> QED BY <1>1, <1>2, <1>3, <1>4, <1>5 DEF History!Range

\* What is in either.
LEMMA RangeConcat ==
    ASSUME NEW S, NEW s \in Seq(S), NEW t \in Seq(S)
    PROVE  s \o t \in Seq(S) /\ History!Range(s \o t) = History!Range(s) \cup History!Range(t)
<1>1. /\ s \o t \in Seq(S) /\ Len(s \o t) = Len(s) + Len(t) /\ Len(s) \in Nat /\ Len(t) \in Nat
      /\ \A i \in 1 .. Len(s) : (s \o t)[i] = s[i]
      /\ \A i \in Len(s) + 1 .. Len(s) + Len(t) : (s \o t)[i] = t[i - Len(s)]
  OBVIOUS
<1>2. DOMAIN s = 1 .. Len(s) /\ DOMAIN t = 1 .. Len(t) /\ DOMAIN (s \o t) = 1 .. Len(s) + Len(t)
  BY <1>1
<1>3. \A i \in 1 .. Len(t) : (s \o t)[Len(s) + i] = t[i] /\ Len(s) + i \in 1 .. Len(s) + Len(t)
  BY <1>1
<1>4. \A i \in Len(s) + 1 .. Len(s) + Len(t) : i - Len(s) \in 1 .. Len(t)
  BY <1>1
<1>5. \A i \in 1 .. Len(s) + Len(t) : i \in 1 .. Len(s) \/ i \in Len(s) + 1 .. Len(s) + Len(t)
  BY <1>1
<1>6. \A i \in 1 .. Len(s) : i \in 1 .. Len(s) + Len(t)
  BY <1>1
<1>7. History!Range(s \o t) \subseteq History!Range(s) \cup History!Range(t)
  BY <1>1, <1>2, <1>4, <1>5 DEF History!Range
<1>8. History!Range(s) \subseteq History!Range(s \o t)
  BY <1>1, <1>2, <1>6 DEF History!Range
<1>9. History!Range(t) \subseteq History!Range(s \o t)
  <2>1. ASSUME NEW i \in 1 .. Len(t) PROVE t[i] \in History!Range(s \o t)
    <3>1. PICK k \in 1 .. Len(s) + Len(t) : (s \o t)[k] = t[i]
      BY <1>1, <1>3
    <3> QED BY <1>2, <3>1 DEF History!Range
  <2> QED BY <1>2, <2>1 DEF History!Range
<1> QED BY <1>1, <1>7, <1>8, <1>9

\* ... and to the relation of each element with the later ones.
LEMMA PairwiseAppend ==
    ASSUME NEW S, NEW s \in Seq(S), NEW x \in S, NEW R, Pairwise(s, R),
           Over(History!Range(s), {x}, R)
    PROVE  Pairwise(Append(s, x), R)
<1>1. /\ Len(Append(s, x)) = Len(s) + 1 /\ Len(s) \in Nat
      /\ \A i \in 1 .. Len(s) : Append(s, x)[i] = s[i]
      /\ Append(s, x)[Len(s) + 1] = x
  OBVIOUS
<1>2. \A i \in 1 .. Len(s) : <<s[i], x>> \in R
  BY DEF Over, History!Range
<1>3. ASSUME NEW i \in 1 .. Len(s) + 1, NEW j \in 1 .. Len(s) + 1, i < j
      PROVE  <<Append(s, x)[i], Append(s, x)[j]>> \in R
  <2>1. i \in 1 .. Len(s)
    BY <1>1, <1>3
  <2>2. CASE j = Len(s) + 1
    BY <1>1, <1>2, <2>1, <2>2
  <2>3. CASE j # Len(s) + 1
    <3>1. j \in 1 .. Len(s)
      BY <1>1, <2>3
    <3> QED BY <1>1, <1>3, <2>1, <3>1 DEF Pairwise
  <2> QED BY <2>2, <2>3
<1> QED BY <1>1, <1>3 DEF Pairwise

\* The tail is in the relation, and the head with all of it.
LEMMA PairwiseTail ==
    ASSUME NEW S, NEW s \in Seq(S), s # <<>>, NEW R, Pairwise(s, R)
    PROVE  Pairwise(Tail(s), R) /\ Over({Head(s)}, History!Range(Tail(s)), R)
<1>1. /\ Head(s) = s[1] /\ Len(Tail(s)) = Len(s) - 1
      /\ Len(s) \in Nat /\ Len(s) >= 1
      /\ \A i \in 1 .. Len(s) - 1 : Tail(s)[i] = s[i + 1] /\ i + 1 \in 1 .. Len(s)
      /\ 1 \in 1 .. Len(s) /\ DOMAIN Tail(s) = 1 .. Len(s) - 1
  OBVIOUS
<1>2. Pairwise(Tail(s), R)
  BY <1>1 DEF Pairwise
<1>3. \A i \in 1 .. Len(s) - 1 : <<s[1], s[i + 1]>> \in R
  BY <1>1 DEF Pairwise
<1> QED BY <1>1, <1>2, <1>3 DEF Over, History!Range

\* Two sequences are one in the relation when the first is with the second.
LEMMA PairwiseConcat ==
    ASSUME NEW S, NEW s \in Seq(S), NEW t \in Seq(S), NEW R, Pairwise(s, R), Pairwise(t, R),
           Over(History!Range(s), History!Range(t), R)
    PROVE  Pairwise(s \o t, R)
<1>1. /\ Len(s \o t) = Len(s) + Len(t) /\ Len(s) \in Nat /\ Len(t) \in Nat
      /\ \A i \in 1 .. Len(s) : (s \o t)[i] = s[i]
      /\ \A i \in Len(s) + 1 .. Len(s) + Len(t) : (s \o t)[i] = t[i - Len(s)]
  OBVIOUS
<1>2. \A i \in 1 .. Len(s), j \in 1 .. Len(t) : <<s[i], t[j]>> \in R
  <2>1. /\ \A i \in 1 .. Len(s) : s[i] \in History!Range(s)
        /\ \A j \in 1 .. Len(t) : t[j] \in History!Range(t)
    <3>1. DOMAIN s = 1 .. Len(s) /\ DOMAIN t = 1 .. Len(t)
      OBVIOUS
    <3> QED BY <3>1 DEF History!Range
  <2> QED BY <2>1 DEF Over
<1>3. ASSUME NEW i \in 1 .. Len(s) + Len(t), NEW j \in 1 .. Len(s) + Len(t), i < j
      PROVE  <<(s \o t)[i], (s \o t)[j]>> \in R
  <2>1. CASE j <= Len(s)
    <3>1. i \in 1 .. Len(s) /\ j \in 1 .. Len(s)
      BY <1>1, <1>3, <2>1
    <3> QED BY <1>1, <1>3, <3>1 DEF Pairwise
  <2>2. CASE i > Len(s)
    <3>1. i \in Len(s) + 1 .. Len(s) + Len(t) /\ j \in Len(s) + 1 .. Len(s) + Len(t)
      BY <1>1, <1>3, <2>2
    <3>2. i - Len(s) \in 1 .. Len(t) /\ j - Len(s) \in 1 .. Len(t) /\ i - Len(s) < j - Len(s)
      BY <1>1, <1>3, <3>1
    <3> QED BY <1>1, <3>1, <3>2 DEF Pairwise
  <2>3. CASE i <= Len(s) /\ j > Len(s)
    <3>1. i \in 1 .. Len(s) /\ j \in Len(s) + 1 .. Len(s) + Len(t) /\ j - Len(s) \in 1 .. Len(t)
      BY <1>1, <2>3
    <3> QED BY <1>1, <1>2, <3>1
  <2>4. j <= Len(s) \/ i > Len(s) \/ (i <= Len(s) /\ j > Len(s))
    BY <1>1
  <2> QED BY <2>1, <2>2, <2>3, <2>4
<1> QED BY <1>1, <1>3 DEF Pairwise

\* A sequence cut in two.
LEMMA Cut ==
    ASSUME NEW S, NEW s \in Seq(S), NEW n \in 0 .. Len(s)
    PROVE  /\ SubSeq(s, 1, n) \in Seq(S) /\ SubSeq(s, n + 1, Len(s)) \in Seq(S)
           /\ Len(SubSeq(s, n + 1, Len(s))) = Len(s) - n
           /\ History!Range(SubSeq(s, 1, n)) = {s[i] : i \in 1 .. n}
           /\ History!Range(s) = History!Range(SubSeq(s, 1, n))
                                   \cup History!Range(SubSeq(s, n + 1, Len(s)))
           /\ \A R : Pairwise(s, R) =>
                /\ Pairwise(SubSeq(s, 1, n), R) /\ Pairwise(SubSeq(s, n + 1, Len(s)), R)
                /\ Over(History!Range(SubSeq(s, 1, n)),
                        History!Range(SubSeq(s, n + 1, Len(s))), R)
<1> DEFINE a == SubSeq(s, 1, n)
           b == SubSeq(s, n + 1, Len(s))
<1>1. /\ a \in Seq(S) /\ Len(a) = n /\ DOMAIN a = 1 .. n
      /\ \A i \in 1 .. n : a[i] = s[i] /\ i \in 1 .. Len(s)
  OBVIOUS
<1>2. /\ b \in Seq(S) /\ Len(b) = Len(s) - n /\ DOMAIN b = 1 .. Len(s) - n
      /\ \A i \in 1 .. Len(s) - n : b[i] = s[n + i] /\ n + i \in 1 .. Len(s)
  OBVIOUS
<1>3. n \in Nat /\ Len(s) \in Nat /\ n <= Len(s) /\ DOMAIN s = 1 .. Len(s)
  OBVIOUS
<1> HIDE DEF a, b
<1>4. History!Range(a) = {s[i] : i \in 1 .. n}
  BY <1>1 DEF History!Range
<1>5. History!Range(a) \cup History!Range(b) \subseteq History!Range(s)
  <2>1. \A i \in 1 .. Len(s) : s[i] \in History!Range(s)
    BY <1>3 DEF History!Range
  <2>2. \A i \in 1 .. n : a[i] \in History!Range(s)
    BY <1>1, <2>1
  <2>3. \A i \in 1 .. Len(s) - n : b[i] \in History!Range(s)
    BY <1>2, <2>1
  <2>4. History!Range(a) \subseteq History!Range(s)
    BY <1>1, <2>2 DEF History!Range
  <2>5. History!Range(b) \subseteq History!Range(s)
    BY <1>2, <2>3 DEF History!Range
  <2> QED BY <2>4, <2>5
<1>6. ASSUME NEW i \in 1 .. Len(s) PROVE s[i] \in History!Range(a) \cup History!Range(b)
  <2>1. CASE i <= n
    BY <1>4, <2>1
  <2>2. CASE i > n
    <3>1. i - n \in 1 .. Len(s) - n /\ n + (i - n) = i
      BY <1>3, <2>2
    <3>2. b[i - n] = s[i]
      BY <1>2, <3>1
    <3> QED BY <1>2, <3>1, <3>2 DEF History!Range
  <2> QED BY <1>3, <2>1, <2>2
<1>7. History!Range(s) \subseteq History!Range(a) \cup History!Range(b)
  BY <1>3, <1>6 DEF History!Range
<1>8. ASSUME NEW R, Pairwise(s, R)
      PROVE  Pairwise(a, R) /\ Pairwise(b, R) /\ Over(History!Range(a), History!Range(b), R)
  <2>1. Pairwise(a, R)
    BY <1>1, <1>8 DEF Pairwise
  <2>2. Pairwise(b, R)
    <3> SUFFICES ASSUME NEW i \in 1 .. Len(s) - n, NEW j \in 1 .. Len(s) - n, i < j
                 PROVE  <<b[i], b[j]>> \in R
      BY <1>2 DEF Pairwise
    <3>1. n + i \in 1 .. Len(s) /\ n + j \in 1 .. Len(s) /\ n + i < n + j
      BY <1>3
    <3> QED BY <1>2, <1>8, <3>1 DEF Pairwise
  <2>3. ASSUME NEW i \in 1 .. n, NEW j \in 1 .. Len(s) - n PROVE <<a[i], b[j]>> \in R
    <3>1. i \in 1 .. Len(s) /\ n + j \in 1 .. Len(s) /\ i < n + j
      BY <1>3
    <3> QED BY <1>1, <1>2, <1>8, <3>1 DEF Pairwise
  <2> QED BY <1>1, <1>2, <2>1, <2>2, <2>3 DEF Over, History!Range
<1> QED BY <1>1, <1>2, <1>4, <1>5, <1>7, <1>8 DEF a, b

-----------------------------------------------------------------------------
(* HistoryWriter: every row is written or reported, in order.              *)
(* What is in the database, in the open transaction, in hand and queued    *)
(* follow each other in the order they were handed over; a batch that is   *)
(* run again is in hand as a whole.  Behind the marker of stop() there is  *)
(* nothing but the row the loop was handing over then.                     *)

\* The rows whose order is kept, and the pairs that are in order.
Counts(r) == r # History!Marker /\ (stopping = "no" \/ r <= stopAt)
InOrder == {p \in Nat \X Nat : Counts(p[1]) /\ Counts(p[2]) => p[1] < p[2]}
MarkerLast == {p \in Nat \X Nat : p[1] = History!Marker => p[2] > stopAt}
Putting == hLoop \in {"put", "wait"}

\* stop() is called once, and marks the end of what it waits for.
StopTells ==
    /\ running <=> stopping = "no"
    /\ stopping = "no" => History!Marker \notin History!Range(hQueue) /\ worker # "end"
    /\ stopping # "no" => stopAt <= rows /\ (Putting => stopAt < rows)
    /\ Putting => rows # 0
    /\ Pairwise(hQueue, MarkerLast)

\* A batch is in hand or in the transaction while it runs.
Batches ==
    /\ worker \notin {"batch", "retry"} => hand = <<>> /\ batch = <<>>
    /\ worker # "batch" => txn = <<>>
    /\ History!Range(hand) \cup History!Range(txn) \subseteq History!Range(batch)

\* The row the loop is handing over is in nobody's hands yet.
HandedOver ==
    \A r \in History!Range(disk) \cup History!Range(batch) \cup History!Range(hQueue) :
        r <= rows /\ (Putting => r < rows)

RowsChain ==
    /\ Pairwise(disk, InOrder) /\ Pairwise(txn, InOrder) /\ Pairwise(hand, InOrder)
    /\ Pairwise(batch, InOrder) /\ Pairwise(hQueue, InOrder)
    /\ Over(History!Range(disk), History!Range(hand), InOrder)
    /\ Over(History!Range(disk), History!Range(txn), InOrder)
    /\ Over(History!Range(disk), History!Range(hQueue), InOrder)
    /\ Over(History!Range(txn), History!Range(hand), InOrder)
    /\ Over(History!Range(batch), History!Range(hQueue), InOrder)
    /\ worker = "batch" => Over(History!Range(disk), History!Range(batch), InOrder)

\* Every row is somewhere.
RowsKept ==
    /\ \A r \in 1 .. rows :
         \/ r \in History!Range(disk) \cup hReported \cup History!Range(hand)
                    \cup History!Range(txn) \cup History!Range(hQueue)
         \/ r = rows /\ Putting
    /\ History!NothingLost

HistoryInv ==
    History!TypeOK /\ StopTells /\ Batches /\ HandedOver /\ RowsChain /\ RowsKept

\* The types, as facts.
LEMMA HistoryTypes ==
    ASSUME HistoryInv
    PROVE  /\ History!TypeOK /\ StopTells /\ Batches /\ HandedOver /\ RowsChain /\ RowsKept
           /\ rows \in Nat /\ rows <= MaxRows /\ stopAt \in Nat
           /\ History!Row \subseteq Nat \ {0} /\ History!Marker = 0
           /\ hQueue \in Seq(History!Row \cup {History!Marker})
           /\ hand \in Seq(History!Row) /\ txn \in Seq(History!Row)
           /\ batch \in Seq(History!Row) /\ disk \in Seq(History!Row)
           /\ History!Range(hQueue) \subseteq Nat /\ History!Range(hand) \subseteq Nat
           /\ History!Range(txn) \subseteq Nat /\ History!Range(batch) \subseteq Nat
           /\ History!Range(disk) \subseteq Nat /\ History!Range(batch) \subseteq History!Row
<1>1. /\ History!TypeOK /\ StopTells /\ Batches /\ HandedOver /\ RowsChain /\ RowsKept
  BY DEF HistoryInv
<1>2. /\ rows \in Nat /\ rows <= MaxRows /\ stopAt \in Nat
      /\ History!Row \subseteq Nat \ {0} /\ History!Marker = 0
  BY <1>1, HistoryAssumption DEF History!TypeOK, History!Row, History!Marker
<1>3. /\ hQueue \in Seq(History!Row \cup {History!Marker})
      /\ hand \in Seq(History!Row) /\ txn \in Seq(History!Row)
      /\ batch \in Seq(History!Row) /\ disk \in Seq(History!Row)
  BY <1>1 DEF History!TypeOK
<1>4. \A S, s : s \in Seq(S) => History!Range(s) \subseteq S
  <2> SUFFICES ASSUME NEW S, NEW s \in Seq(S) PROVE History!Range(s) \subseteq S
    OBVIOUS
  <2>1. DOMAIN s = 1 .. Len(s) /\ \A i \in 1 .. Len(s) : s[i] \in S
    OBVIOUS
  <2> QED BY <2>1 DEF History!Range
<1>5. /\ History!Range(hQueue) \subseteq History!Row \cup {History!Marker}
      /\ History!Range(hand) \subseteq History!Row /\ History!Range(txn) \subseteq History!Row
      /\ History!Range(batch) \subseteq History!Row /\ History!Range(disk) \subseteq History!Row
  BY <1>3, <1>4
<1>6. /\ History!Range(hQueue) \subseteq Nat /\ History!Range(hand) \subseteq Nat
      /\ History!Range(txn) \subseteq Nat /\ History!Range(batch) \subseteq Nat
      /\ History!Range(disk) \subseteq Nat
  <2>1. History!Row \subseteq Nat /\ History!Marker \in Nat
    BY <1>2
  <2> QED BY <1>5, <2>1
<1> QED BY <1>1, <1>2, <1>3, <1>5, <1>6

\* What a pair needs to be in order.
LEMMA PairsAre ==
    \A x, y \in Nat : /\ <<x, y>> \in InOrder <=> (Counts(x) /\ Counts(y) => x < y)
                      /\ <<x, y>> \in MarkerLast <=> (x = History!Marker => y > stopAt)
BY DEF InOrder, MarkerLast

\* As long as stop() is not called, what is in order stays in order.
LEMMA PairsStay ==
    ASSUME UNCHANGED stopAt, stopping' = stopping \/ (stopping # "no" /\ stopping' # "no")
    PROVE  InOrder' = InOrder /\ MarkerLast' = MarkerLast /\ \A r : Counts(r)' <=> Counts(r)
<1>1. \A r : Counts(r)' <=> Counts(r)
  BY DEF Counts
<1> QED BY <1>1 DEF InOrder, MarkerLast

\* What touches neither the rows on their way nor stop().
LEMMA RowsStay ==
    ASSUME HistoryInv, History!TypeOK',
           UNCHANGED <<rows, hQueue, hand, txn, batch, disk, running, stopAt>>,
           stopping' = stopping \/ (stopping # "no" /\ stopping' # "no"),
           worker' = worker \/ (worker \in {"get", "look", "mark"} /\ worker' \in {"get", "look", "mark"}),
           hReported \subseteq hReported', Putting' <=> Putting
    PROVE  HistoryInv'
<1> USE HistoryTypes
<1>1. InOrder' = InOrder /\ MarkerLast' = MarkerLast
  BY PairsStay
<1>2. StopTells'
  BY <1>1 DEF StopTells, Pairwise, History!Range
<1>3. Batches'
  <2>1. UNCHANGED <<hand, batch, txn>>
    OBVIOUS
  <2>2. worker' \notin {"batch", "retry"} => worker \notin {"batch", "retry"}
    OBVIOUS
  <2>3. worker' # "batch" => worker # "batch"
    OBVIOUS
  <2>4. Batches
    OBVIOUS
  <2> QED BY ONLY <2>1, <2>2, <2>3, <2>4 DEF Batches
<1>4. HandedOver'
  BY DEF HandedOver, History!Range
<1>5. RowsChain'
  <2>1. UNCHANGED <<hand, batch, txn, disk, hQueue>>
    OBVIOUS
  <2>2. worker' = "batch" => worker = "batch"
    OBVIOUS
  <2>3. RowsChain
    OBVIOUS
  <2> QED BY ONLY <1>1, <2>1, <2>2, <2>3 DEF RowsChain
<1>6. RowsKept'
  BY DEF RowsKept, History!NothingLost, History!Range
<1> QED BY <1>2, <1>3, <1>4, <1>5, <1>6 DEF HistoryInv

\* Nothing is queued, written or lost at the start.
LEMMA HistoryInit == ASSUME History!Init PROVE HistoryInv
<1> USE RangeEmpty, HistoryAssumption
<1>1. /\ rows = 0 /\ settings = {} /\ hQueue = <<>> /\ worker = "get" /\ hand = <<>> /\ txn = <<>>
      /\ batch = <<>> /\ disk = <<>> /\ hReported = {} /\ dbLock = "free" /\ cfgLock = FALSE
      /\ hLoop = "ready" /\ stopping = "no" /\ stopAt = 0 /\ flush = {}
  BY DEF History!Init
<1>2. running /\ running \in BOOLEAN /\ idle \in BOOLEAN /\ flushed \in BOOLEAN
  BY Zenon DEF History!Init
<1>3. <<>> \in Seq(History!Row) /\ <<>> \in Seq(History!Row \cup {History!Marker}) /\ Len(<<>>) = 0
  OBVIOUS
<1>4. History!TypeOK
  <2>1. cfgLock <=> hLoop = "save"
    BY <1>1
  <2>2. cfgLock \in BOOLEAN
    BY <1>1
  <2>3. \A s \in {hand, txn, batch, disk} : s \in Seq(History!Row)
    BY <1>1, <1>3
  <2>4. rows \in 0 .. MaxRows /\ stopAt \in 0 .. MaxRows /\ Len(hQueue) <= QueueMax
    BY <1>1, <1>3
  <2> QED BY <1>1, <1>2, <1>3, <2>1, <2>2, <2>3, <2>4 DEF History!TypeOK
<1>5. StopTells
  BY <1>1, <1>2 DEF StopTells, Putting
<1>6. Batches
  BY <1>1 DEF Batches
<1>7. HandedOver
  BY <1>1 DEF HandedOver
<1>8. RowsChain
  BY <1>1 DEF RowsChain, Over
<1>9. RowsKept
  BY <1>1 DEF RowsKept, History!NothingLost
<1> QED BY <1>4, <1>5, <1>6, <1>7, <1>8, <1>9 DEF HistoryInv

\* A row is handed over.
LEMMA HandKeeps == ASSUME HistoryInv, History!Hand PROVE HistoryInv'
<1> USE HistoryTypes, HistoryAssumption
<1>1. /\ hLoop = "ready" /\ hLoop' = "put" /\ rows < MaxRows /\ rows' = rows + 1
      /\ settings' \in {settings, settings \cup {rows + 1}}
      /\ UNCHANGED <<hQueue, worker, hand, txn, batch, disk, hReported, dbLock, cfgLock, stopping,
                     stopAt, flush>>
  BY DEF History!Hand, History!workerVars, History!stopVars, History!flushVars
<1>2. running /\ running' = running /\ idle' \in BOOLEAN /\ flushed' = flushed
  BY Zenon DEF History!Hand, History!stopVars, History!flushVars
<1>3. History!TypeOK'
  <2>1. rows' \in 0 .. MaxRows /\ rows + 1 \in History!Row
    BY <1>1 DEF History!Row
  <2>2. settings' \subseteq History!Row
    BY <1>1, <2>1 DEF History!TypeOK
  <2>3. cfgLock' <=> hLoop' = "save"
    BY <1>1 DEF History!TypeOK
  <2> QED BY <1>1, <1>2, <2>1, <2>2, <2>3 DEF History!TypeOK
<1>4. stopping = "no" /\ worker # "end"
  BY <1>2 DEF StopTells
<1>5. InOrder' = InOrder /\ MarkerLast' = MarkerLast
  BY <1>1, PairsStay
<1>6. StopTells'
  <2>1. rows' # 0
    BY <1>1
  <2> QED BY <1>1, <1>2, <1>4, <1>5, <2>1 DEF StopTells
<1>7. Batches'
  BY <1>1 DEF Batches
<1>8. HandedOver'
  <2>1. \A r \in History!Range(disk) \cup History!Range(batch) \cup History!Range(hQueue) :
          r \in Nat /\ r <= rows
    BY DEF HandedOver
  <2> QED BY <1>1, <2>1 DEF HandedOver
<1>9. RowsChain'
  BY <1>1, <1>5 DEF RowsChain
<1>10. RowsKept'
  <2>1. \A r \in 1 .. rows + 1 : r = rows + 1 \/ r \in 1 .. rows
    OBVIOUS
  <2>2. ~Putting /\ Putting'
    BY <1>1 DEF Putting
  <2> QED BY <1>1, <1>4, <2>1, <2>2 DEF RowsKept, History!NothingLost
<1> QED BY <1>3, <1>6, <1>7, <1>8, <1>9, <1>10 DEF HistoryInv

\* It is queued, dropped with a count, or waits.
LEMMA PutKeeps == ASSUME HistoryInv, History!Put PROVE HistoryInv'
<1> USE HistoryTypes, HistoryAssumption
<1>1. /\ Putting
      /\ UNCHANGED <<rows, settings, worker, hand, txn, batch, disk, dbLock, cfgLock, stopping,
                     stopAt, flush>>
  BY DEF History!Put, Putting, History!workerVars, History!stopVars, History!flushVars
<1>2. UNCHANGED <<running, idle, flushed>>
  BY Zenon DEF History!Put, History!stopVars, History!flushVars
<1>3. \/ /\ ~History!Full /\ hQueue' = Append(hQueue, rows) /\ hLoop' = "ready"
         /\ hReported' = hReported
      \/ hReported' = hReported \cup {rows} /\ hLoop' = "ready" /\ hQueue' = hQueue
      \/ hLoop' = "wait" /\ hQueue' = hQueue /\ hReported' = hReported
  BY DEF History!Put
<1>4. rows # 0 /\ rows \in History!Row
  BY <1>1 DEF StopTells, History!Row
<1>5. InOrder' = InOrder /\ MarkerLast' = MarkerLast
  BY <1>1, PairsStay
<1>6. ~cfgLock /\ hLoop' # "save"
  BY <1>1, <1>3 DEF Putting, History!TypeOK
<1>7. CASE ~History!Full /\ hQueue' = Append(hQueue, rows) /\ hLoop' = "ready" /\ hReported' = hReported
  <2>1. /\ hQueue' \in Seq(History!Row \cup {History!Marker}) /\ Len(hQueue') = Len(hQueue) + 1
        /\ History!Range(hQueue') = History!Range(hQueue) \cup {rows}
    <3>1. rows \in History!Row \cup {History!Marker}
      BY <1>4
    <3>2. hQueue \in Seq(History!Row \cup {History!Marker}) /\ hQueue' = Append(hQueue, rows)
      BY <1>7
    <3> QED BY ONLY <3>1, <3>2, RangeAppend
  <2>2. Len(hQueue') <= QueueMax
    BY <1>7, <2>1 DEF History!Full
  <2>3. History!TypeOK'
    BY <1>1, <1>2, <1>6, <1>7, <2>1, <2>2 DEF History!TypeOK
  <2>4. \A y \in History!Range(disk) \cup History!Range(batch) \cup History!Range(hQueue) :
          <<y, rows>> \in InOrder
    BY <1>1, PairsAre DEF HandedOver
  <2>5. \A y \in History!Range(hQueue) : <<y, rows>> \in MarkerLast
    BY <1>1, PairsAre DEF StopTells
  <2>6. Pairwise(hQueue', InOrder) /\ Pairwise(hQueue', MarkerLast)
    <3>1. Over(History!Range(hQueue), {rows}, InOrder) /\ Over(History!Range(hQueue), {rows}, MarkerLast)
      BY <2>4, <2>5 DEF Over
    <3>2. rows \in History!Row \cup {History!Marker}
      BY <1>4
    <3>3. Pairwise(hQueue, InOrder) /\ Pairwise(hQueue, MarkerLast)
      BY DEF RowsChain, StopTells
    <3> QED BY <1>7, <3>1, <3>2, <3>3, PairwiseAppend
  <2>7. StopTells'
    BY <1>1, <1>2, <1>4, <1>5, <1>7, <2>1, <2>6 DEF StopTells, Putting
  <2>8. Batches'
    BY <1>1 DEF Batches
  <2>9. HandedOver'
    BY <1>1, <1>7, <2>1 DEF HandedOver, Putting
  <2>10. /\ Over(History!Range(disk), History!Range(hQueue'), InOrder)
         /\ Over(History!Range(batch), History!Range(hQueue'), InOrder)
    BY <2>1, <2>4 DEF RowsChain, Over
  <2>11. RowsChain'
    BY <1>1, <1>5, <2>6, <2>10 DEF RowsChain
  <2>12. RowsKept'
    BY <1>1, <1>7, <2>1 DEF RowsKept, History!NothingLost
  <2> QED BY <2>3, <2>7, <2>8, <2>9, <2>11, <2>12 DEF HistoryInv
<1>8. CASE hReported' = hReported \cup {rows} /\ hLoop' = "ready" /\ hQueue' = hQueue
  <2>1. History!TypeOK'
    BY <1>1, <1>2, <1>4, <1>6, <1>8 DEF History!TypeOK
  <2>2. StopTells'
    BY <1>1, <1>2, <1>5, <1>8 DEF StopTells, Putting
  <2>3. Batches'
    BY <1>1 DEF Batches
  <2>4. HandedOver'
    BY <1>1, <1>8 DEF HandedOver, Putting
  <2>5. RowsChain'
    BY <1>1, <1>5, <1>8 DEF RowsChain
  <2>6. RowsKept'
    BY <1>1, <1>8 DEF RowsKept, History!NothingLost
  <2> QED BY <2>1, <2>2, <2>3, <2>4, <2>5, <2>6 DEF HistoryInv
<1>9. CASE hLoop' = "wait" /\ hQueue' = hQueue /\ hReported' = hReported
  <2>1. History!TypeOK'
    BY <1>1, <1>2, <1>6, <1>9 DEF History!TypeOK
  <2>2. Putting'
    BY <1>9 DEF Putting
  <2> QED BY <1>1, <1>2, <1>9, <2>1, <2>2, RowsStay
<1> QED BY <1>3, <1>7, <1>8, <1>9

\* Behind stop(), a row is written at once or reported.
LEMMA WriteInlineKeeps == ASSUME HistoryInv, History!WriteInline PROVE HistoryInv'
<1> USE HistoryTypes, HistoryAssumption
<1>1. /\ hLoop = "ready" /\ rows < MaxRows /\ rows' = rows + 1
      /\ \/ disk' = Append(disk, rows + 1) /\ hReported' = hReported
         \/ hReported' = hReported \cup {rows + 1} /\ disk' = disk
      /\ UNCHANGED <<settings, hQueue, worker, hand, txn, batch, dbLock, cfgLock, hLoop, stopping,
                     stopAt, flush>>
  BY DEF History!WriteInline, History!workerVars, History!stopVars, History!flushVars
<1>2. ~running /\ UNCHANGED <<running, idle, flushed>>
  BY Zenon DEF History!WriteInline, History!stopVars, History!flushVars
<1>3. stopping # "no" /\ stopAt <= rows
  BY <1>2 DEF StopTells
<1>4. rows + 1 \in History!Row /\ rows + 1 \in Nat /\ ~Counts(rows + 1)
  BY <1>1, <1>3 DEF History!Row, Counts
<1>5. InOrder' = InOrder /\ MarkerLast' = MarkerLast
  BY <1>1, PairsStay
<1>6. \A y \in Nat : <<y, rows + 1>> \in InOrder /\ <<rows + 1, y>> \in InOrder
  BY <1>4, PairsAre
<1>7. /\ disk' \in Seq(History!Row)
      /\ History!Range(disk') \subseteq History!Range(disk) \cup {rows + 1}
      /\ History!Range(disk) \subseteq History!Range(disk')
      /\ Pairwise(disk', InOrder)
      /\ rows + 1 \in History!Range(disk') \cup hReported'
      /\ hReported \subseteq hReported' /\ hReported' \subseteq History!Row
  <2>1. hReported \subseteq History!Row /\ Pairwise(disk, InOrder)
    BY DEF History!TypeOK, RowsChain
  <2>2. CASE disk' = Append(disk, rows + 1) /\ hReported' = hReported
    <3>1. Over(History!Range(disk), {rows + 1}, InOrder)
      BY <1>6 DEF Over
    <3>2. Pairwise(disk', InOrder)
      BY <1>4, <2>1, <2>2, <3>1, PairwiseAppend
    <3>3. disk' \in Seq(History!Row) /\ History!Range(disk') = History!Range(disk) \cup {rows + 1}
      BY <1>4, <2>2, RangeAppend
    <3> QED BY <2>1, <2>2, <3>2, <3>3
  <2>3. CASE hReported' = hReported \cup {rows + 1} /\ disk' = disk
    BY <1>4, <2>1, <2>3
  <2> QED BY <1>1, <2>2, <2>3
<1>8. History!TypeOK'
  <2>1. rows' \in 0 .. MaxRows
    BY <1>1
  <2> QED BY <1>1, <1>2, <1>7, <2>1 DEF History!TypeOK
<1>9. ~Putting /\ ~Putting'
  BY <1>1 DEF Putting
<1>10. StopTells'
  <2>1. stopAt' <= rows'
    BY <1>1, <1>3
  <2> QED BY <1>1, <1>2, <1>3, <1>5, <1>9, <2>1 DEF StopTells
<1>11. Batches'
  BY <1>1 DEF Batches
<1>12. HandedOver'
  <2>1. \A r \in History!Range(disk) \cup History!Range(batch) \cup History!Range(hQueue) :
          r \in Nat /\ r <= rows
    BY DEF HandedOver
  <2> QED BY <1>1, <1>7, <1>9, <2>1 DEF HandedOver
<1>13. RowsChain'
  <2>1. \A T : T \subseteq Nat /\ Over(History!Range(disk), T, InOrder)
                 => Over(History!Range(disk'), T, InOrder)
    BY <1>6, <1>7 DEF Over
  <2> QED BY <1>1, <1>5, <1>7, <2>1 DEF RowsChain
<1>14. RowsKept'
  <2>1. \A r \in 1 .. rows + 1 : r = rows + 1 \/ r \in 1 .. rows
    OBVIOUS
  <2> QED BY <1>1, <1>7, <1>9, <2>1 DEF RowsKept, History!NothingLost
<1> QED BY <1>8, <1>10, <1>11, <1>12, <1>13, <1>14 DEF HistoryInv

\* The number of items before the next marker, within a batch.
LEMMA DrainIs ==
    ASSUME HistoryInv
    PROVE  History!Drain \in 0 .. Len(hQueue)
           /\ \A i \in 1 .. History!Drain : hQueue[i] # History!Marker
<1> USE HistoryTypes, HistoryAssumption
<1> DEFINE stops == {i \in 1 .. Len(hQueue) : hQueue[i] = History!Marker}
           room == IF Len(hQueue) < BatchMax THEN Len(hQueue) ELSE BatchMax
           P(n) == (\A i \in 1 .. n : i \notin stops) /\ (n = room \/ n + 1 \in stops)
<1>1. Len(hQueue) \in Nat /\ room \in Nat /\ room <= Len(hQueue)
  OBVIOUS
<1>2. \E n \in 0 .. room : P(n)
  <2> HIDE DEF stops, room
  <2>1. CASE \A i \in 1 .. room : i \notin stops
    <3>1. room \in 0 .. room /\ P(room)
      BY <1>1, <2>1
    <3> QED BY <3>1
  <2>2. CASE ~\A i \in 1 .. room : i \notin stops
    <3> DEFINE T == {i \in 1 .. room : i \in stops}
    <3>1. PICK i \in 1 .. room : i \in stops
      BY <2>2
    <3>2. T \subseteq Nat /\ i \in T
      BY <1>1, <3>1
    <3>3. PICK m \in T : \A k \in T : m <= k
      BY <3>2, LeastNatural
    <3>4. m \in 1 .. room /\ m \in stops
      BY <3>3
    <3>5. m - 1 \in 0 .. room /\ (m - 1) + 1 = m
      BY <1>1, <3>4
    <3>6. \A k \in 1 .. m - 1 : k \notin stops
      BY <1>1, <3>3, <3>4
    <3> QED BY <3>4, <3>5, <3>6
  <2> QED BY <2>1, <2>2
<1>3. History!Drain = CHOOSE n \in 0 .. room : P(n)
  BY DEF History!Drain
<1>4. History!Drain \in 0 .. room /\ P(History!Drain)
  <2> HIDE DEF P, room
  <2> QED BY <1>2, <1>3
<1>5. \A i \in 1 .. History!Drain : i \in 1 .. Len(hQueue) /\ i \notin stops
  BY <1>1, <1>4
<1> QED BY <1>1, <1>4, <1>5

\* The worker finds nothing left to do: what stop() waits for is written or reported.
LEMMA EndTells ==
    ASSUME HistoryInv, worker = "get", stopping # "no",
           \A y \in History!Range(hQueue) : y = History!Marker \/ y > stopAt
    PROVE  \A r \in 1 .. stopAt : r \in History!Range(disk) \cup hReported
<1> USE HistoryTypes
<1>1. SUFFICES ASSUME NEW r \in 1 .. stopAt PROVE r \in History!Range(disk) \cup hReported
  OBVIOUS
<1>2. stopAt <= rows /\ (Putting => stopAt < rows)
  BY DEF StopTells
<1>3. r \in 1 .. rows /\ r # 0 /\ ~(r > stopAt) /\ ~(r = rows /\ Putting)
  BY <1>2
<1>4. hand = <<>> /\ txn = <<>>
  BY DEF Batches
<1>5. r \notin History!Range(hQueue)
  BY <1>3
<1> QED BY <1>3, <1>4, <1>5, RangeEmpty DEF RowsKept

\* The worker takes a batch, or the marker of stop().
LEMMA GetKeeps == ASSUME HistoryInv, History!Get PROVE HistoryInv'
<1> USE HistoryTypes, HistoryAssumption
<1>1. /\ worker = "get" /\ hQueue # <<>>
      /\ UNCHANGED <<rows, settings, txn, disk, hReported, dbLock, cfgLock, hLoop, stopping, stopAt, flush>>
  BY DEF History!Get, History!stopVars, History!flushVars
<1>2. UNCHANGED <<running, flushed>> /\ idle' \in BOOLEAN
  BY Zenon DEF History!Get, History!stopVars, History!flushVars
<1>3. hand = <<>> /\ batch = <<>> /\ txn = <<>> /\ History!Range(<<>>) = {}
  BY <1>1, RangeEmpty DEF Batches
<1>4. InOrder' = InOrder /\ MarkerLast' = MarkerLast
  BY <1>1, PairsStay
<1>5. Putting' <=> Putting
  BY <1>1 DEF Putting
<1>6. \A R : Pairwise(<<>>, R) /\ Over({}, {}, R) /\ \A T : Over(T, {}, R) /\ Over({}, T, R)
  BY RangeEmpty DEF Over
<1>7. CASE Head(hQueue) = History!Marker
  <2>1. worker' = "end" /\ hQueue' = Tail(hQueue) /\ hand' = hand /\ batch' = batch
    BY <1>7 DEF History!Get
  <2>2. /\ hQueue' \in Seq(History!Row \cup {History!Marker}) /\ Len(hQueue') = Len(hQueue) - 1
        /\ History!Range(hQueue) = {Head(hQueue)} \cup History!Range(hQueue')
    BY <1>1, <2>1, RangeTail
  <2>3. \A R : Pairwise(hQueue, R) => Pairwise(hQueue', R) /\ Over({Head(hQueue)}, History!Range(hQueue'), R)
    BY <1>1, <2>1, PairwiseTail
  <2>4. Len(hQueue') <= QueueMax
    <3>1. Len(hQueue) \in Nat /\ Len(hQueue) <= QueueMax
      BY DEF History!TypeOK
    <3> QED BY <2>2, <3>1
  <2>5. History!TypeOK'
    BY <1>1, <1>2, <2>1, <2>2, <2>4 DEF History!TypeOK
  <2>6. stopping # "no"
    BY <1>7, <2>2 DEF StopTells
  <2>7. \A y \in History!Range(hQueue) : y = History!Marker \/ y > stopAt
    <3>1. \A y \in History!Range(hQueue') : <<History!Marker, y>> \in MarkerLast
      BY <1>7, <2>3 DEF StopTells, Over
    <3>2. \A y \in History!Range(hQueue') : y \in Nat
      BY <2>2
    <3> QED BY <1>7, <2>2, <3>1, <3>2, PairsAre
  <2>8. \A r \in 1 .. stopAt : r \in History!Range(disk) \cup hReported
    BY <1>1, <2>6, <2>7, EndTells
  <2>9. StopTells'
    BY <1>1, <1>2, <1>4, <1>5, <2>2, <2>3, <2>6 DEF StopTells
  <2>10. Batches'
    BY <1>1, <1>3, <2>1 DEF Batches
  <2>11. HandedOver'
    BY <1>1, <1>5, <2>1, <2>2 DEF HandedOver
  <2>12. RowsChain'
    <3>1. \A T : Over(T, History!Range(hQueue), InOrder) => Over(T, History!Range(hQueue'), InOrder)
      BY <2>2 DEF Over
    <3> QED BY <1>1, <1>4, <2>1, <2>3, <3>1 DEF RowsChain
  <2>13. RowsKept'
    <3>1. ASSUME NEW r \in 1 .. rows
          PROVE  \/ r \in History!Range(disk) \cup hReported \cup History!Range(hand)
                            \cup History!Range(txn) \cup History!Range(hQueue')
                 \/ r = rows /\ Putting
      BY <1>7, <2>2 DEF RowsKept
    <3> QED BY <1>1, <1>5, <2>1, <2>8, <3>1 DEF RowsKept, History!NothingLost
  <2> QED BY <2>5, <2>9, <2>10, <2>11, <2>12, <2>13 DEF HistoryInv
<1>8. CASE Head(hQueue) # History!Marker
  <2>1. PICK n \in 0 .. Len(hQueue) : n = History!Drain /\ \A i \in 1 .. n : hQueue[i] # History!Marker
    BY DrainIs
  <2>2. /\ worker' = "batch" /\ hand' = SubSeq(hQueue, 1, n) /\ batch' = hand'
        /\ hQueue' = SubSeq(hQueue, n + 1, Len(hQueue))
    BY <1>8, <2>1 DEF History!Get
  <2>3. /\ hand' \in Seq(History!Row \cup {History!Marker})
        /\ hQueue' \in Seq(History!Row \cup {History!Marker})
        /\ Len(hQueue') = Len(hQueue) - n
        /\ History!Range(hand') = {hQueue[i] : i \in 1 .. n}
        /\ History!Range(hQueue) = History!Range(hand') \cup History!Range(hQueue')
    <3>1. /\ SubSeq(hQueue, 1, n) \in Seq(History!Row \cup {History!Marker})
          /\ SubSeq(hQueue, n + 1, Len(hQueue)) \in Seq(History!Row \cup {History!Marker})
          /\ Len(SubSeq(hQueue, n + 1, Len(hQueue))) = Len(hQueue) - n
          /\ History!Range(SubSeq(hQueue, 1, n)) = {hQueue[i] : i \in 1 .. n}
          /\ History!Range(hQueue) = History!Range(SubSeq(hQueue, 1, n))
                                        \cup History!Range(SubSeq(hQueue, n + 1, Len(hQueue)))
      BY Cut
    <3> QED BY <2>2, <3>1
  <2>4. \A R : Pairwise(hQueue, R) =>
          Pairwise(hand', R) /\ Pairwise(hQueue', R) /\ Over(History!Range(hand'), History!Range(hQueue'), R)
    BY <2>2, Cut
  <2>5. hand' \in Seq(History!Row)
    <3>1. n \in Int /\ 1 \in Int
      OBVIOUS
    <3>2. ASSUME NEW i \in 1 .. n PROVE hQueue[i] \in History!Row
      <4>1. i \in 1 .. Len(hQueue) /\ hQueue[i] # History!Marker
        BY <2>1
      <4>2. hQueue[i] \in History!Row \cup {History!Marker}
        BY <4>1
      <4> QED BY <4>1, <4>2
    <3>3. SubSeq(hQueue, 1, n) \in Seq(History!Row)
      BY <3>1, <3>2, SubSeqProperties
    <3> QED BY <2>2, <3>3
  <2>6. Len(hQueue') <= QueueMax
    <3>1. Len(hQueue) \in Nat /\ Len(hQueue) <= QueueMax
      BY DEF History!TypeOK
    <3> QED BY <2>3, <3>1
  <2>7. History!TypeOK'
    BY <1>1, <1>2, <2>2, <2>3, <2>5, <2>6 DEF History!TypeOK
  <2>8. StopTells'
    BY <1>1, <1>2, <1>4, <1>5, <2>2, <2>3, <2>4 DEF StopTells
  <2>9. Batches'
    BY <1>1, <1>3, <2>2 DEF Batches
  <2>10. HandedOver'
    BY <1>1, <1>5, <2>2, <2>3 DEF HandedOver
  <2>11. RowsChain'
    <3>1. \A T : Over(T, History!Range(hQueue), InOrder) =>
            Over(T, History!Range(hand'), InOrder) /\ Over(T, History!Range(hQueue'), InOrder)
      BY <2>3 DEF Over
    <3>2. /\ Over(History!Range(disk), History!Range(hand'), InOrder)
          /\ Over(History!Range(disk), History!Range(hQueue'), InOrder)
      BY <3>1 DEF RowsChain
    <3>3. Pairwise(disk, InOrder) /\ Pairwise(txn, InOrder) /\ Pairwise(hQueue, InOrder)
          /\ Over(History!Range(disk), History!Range(txn), InOrder)
      BY DEF RowsChain
    <3>4. Over(History!Range(txn), History!Range(hand'), InOrder)
      BY <1>3, <1>6
    <3> QED BY <1>1, <1>4, <2>2, <2>4, <3>2, <3>3, <3>4 DEF RowsChain
  <2>12. RowsKept'
    <3>1. ASSUME NEW r \in 1 .. rows
          PROVE  \/ r \in History!Range(disk) \cup hReported \cup History!Range(hand')
                            \cup History!Range(txn) \cup History!Range(hQueue')
                 \/ r = rows /\ Putting
      BY <1>3, <2>3 DEF RowsKept
    <3> QED BY <1>1, <1>5, <2>2, <3>1 DEF RowsKept, History!NothingLost
  <2> QED BY <2>7, <2>8, <2>9, <2>10, <2>11, <2>12 DEF HistoryInv
<1> QED BY <1>7, <1>8

\* Nothing is queued when the worker ends without a marker.
LEMMA EndsKeeps == ASSUME HistoryInv, History!Ends PROVE HistoryInv'
<1> USE HistoryTypes, HistoryAssumption
<1>1. /\ worker = "get" /\ hQueue = <<>> /\ worker' = "end"
      /\ UNCHANGED <<rows, settings, hQueue, hand, txn, batch, disk, hReported, dbLock, cfgLock, hLoop,
                     stopping, stopAt, flush>>
  BY DEF History!Ends, History!stopVars, History!flushVars
<1>2. ~running /\ UNCHANGED <<running, flushed>> /\ idle' \in BOOLEAN
  BY Zenon DEF History!Ends, History!stopVars, History!flushVars
<1>3. stopping # "no"
  BY <1>2 DEF StopTells
<1>4. \A r \in 1 .. stopAt : r \in History!Range(disk) \cup hReported
  <2>1. History!Range(hQueue) = {}
    BY <1>1, RangeEmpty
  <2> QED BY <1>1, <1>3, <2>1, EndTells
<1>5. InOrder' = InOrder /\ MarkerLast' = MarkerLast /\ (Putting' <=> Putting)
  BY <1>1, PairsStay DEF Putting
<1>6. History!TypeOK'
  BY <1>1, <1>2 DEF History!TypeOK
<1>7. StopTells'
  BY <1>1, <1>2, <1>3, <1>5 DEF StopTells
<1>8. Batches'
  BY <1>1 DEF Batches
<1>9. HandedOver'
  BY <1>1, <1>5 DEF HandedOver
<1>10. RowsChain'
  BY <1>1, <1>5 DEF RowsChain
<1>11. RowsKept'
  BY <1>1, <1>4, <1>5 DEF RowsKept, History!NothingLost
<1> QED BY <1>6, <1>7, <1>8, <1>9, <1>10, <1>11 DEF HistoryInv

\* An item of the batch is run: it is in the transaction, or failed and was reported.
LEMMA RunItemKeeps == ASSUME HistoryInv, History!RunItem PROVE HistoryInv'
<1> USE HistoryTypes, HistoryAssumption
<1>1. /\ worker = "batch" /\ hand # <<>> /\ hand' = Tail(hand)
      /\ \/ txn' = Append(txn, Head(hand)) /\ dbLock' = "worker" /\ hReported' = hReported
         \/ hReported' = hReported \cup {Head(hand)} /\ txn' = txn /\ dbLock' = dbLock
      /\ UNCHANGED <<rows, settings, hQueue, worker, batch, disk, cfgLock, hLoop, stopping, stopAt, flush>>
  BY DEF History!RunItem, History!stopVars, History!flushVars
<1>2. UNCHANGED <<running, idle, flushed>>
  BY Zenon DEF History!RunItem, History!stopVars, History!flushVars
<1>3. InOrder' = InOrder /\ MarkerLast' = MarkerLast /\ (Putting' <=> Putting)
  BY <1>1, PairsStay DEF Putting
<1>4. /\ Head(hand) \in History!Row /\ hand' \in Seq(History!Row)
      /\ History!Range(hand) = {Head(hand)} \cup History!Range(hand')
  BY <1>1, RangeTail
<1>5. /\ Pairwise(hand', InOrder) /\ Over({Head(hand)}, History!Range(hand'), InOrder)
  <2>1. Pairwise(hand, InOrder)
    BY DEF RowsChain
  <2> QED BY <1>1, <2>1, PairwiseTail
<1>6. /\ txn' \in Seq(History!Row) /\ (dbLock' = "worker" <=> txn' # <<>>)
      /\ dbLock' \in {"free", "worker"} /\ hReported' \subseteq History!Row
      /\ History!Range(txn) \subseteq History!Range(txn') /\ hReported \subseteq hReported'
      /\ History!Range(txn') \subseteq History!Range(txn) \cup {Head(hand)}
      /\ Head(hand) \in History!Range(txn') \cup hReported'
      /\ Pairwise(txn', InOrder)
  <2>1. hReported \subseteq History!Row /\ (dbLock = "worker" <=> txn # <<>>) /\ dbLock \in {"free", "worker"}
    BY DEF History!TypeOK
  <2>2. Pairwise(txn, InOrder) /\ Over(History!Range(txn), {Head(hand)}, InOrder)
    BY <1>4 DEF RowsChain, Over
  <2>3. CASE txn' = Append(txn, Head(hand)) /\ dbLock' = "worker" /\ hReported' = hReported
    <3>1. /\ txn' \in Seq(History!Row) /\ txn' # <<>>
          /\ History!Range(txn') = History!Range(txn) \cup {Head(hand)}
      <4>1. txn \in Seq(History!Row) /\ Head(hand) \in History!Row /\ txn' = Append(txn, Head(hand))
        BY <1>4, <2>3
      <4> QED BY ONLY <4>1, RangeAppend
    <3>2. Pairwise(txn', InOrder)
      BY <1>4, <2>2, <2>3, PairwiseAppend
    <3> QED BY <2>1, <2>3, <3>1, <3>2
  <2>4. CASE hReported' = hReported \cup {Head(hand)} /\ txn' = txn /\ dbLock' = dbLock
    BY <1>4, <2>1, <2>2, <2>4
  <2> QED BY <1>1, <2>3, <2>4
<1>7. History!TypeOK'
  BY <1>1, <1>2, <1>4, <1>6 DEF History!TypeOK
<1>8. StopTells'
  BY <1>1, <1>2, <1>3 DEF StopTells
<1>9. Batches'
  BY <1>1, <1>4, <1>6 DEF Batches
<1>10. HandedOver'
  BY <1>1, <1>3 DEF HandedOver
<1>11. RowsChain'
  <2>1. /\ Over(History!Range(disk), History!Range(hand'), InOrder)
        /\ Over(History!Range(disk), History!Range(txn'), InOrder)
        /\ Over(History!Range(txn'), History!Range(hand'), InOrder)
    BY <1>4, <1>5, <1>6 DEF RowsChain, Over
  <2> QED BY <1>1, <1>3, <1>5, <1>6, <2>1 DEF RowsChain
<1>12. RowsKept'
  BY <1>1, <1>3, <1>4, <1>6 DEF RowsKept, History!NothingLost
<1> QED BY <1>7, <1>8, <1>9, <1>10, <1>11, <1>12 DEF HistoryInv

\* The transaction is written.
LEMMA CommitKeeps == ASSUME HistoryInv, History!Commit PROVE HistoryInv'
<1> USE HistoryTypes, HistoryAssumption, RangeEmpty
<1>1. /\ worker = "batch" /\ hand = <<>> /\ disk' = disk \o txn /\ txn' = <<>> /\ dbLock' = "free"
      /\ batch' = <<>> /\ worker' = "look"
      /\ UNCHANGED <<rows, settings, hQueue, hand, hReported, cfgLock, hLoop, stopping, stopAt, flush>>
  BY DEF History!Commit, History!stopVars, History!flushVars
<1>2. UNCHANGED <<running, idle, flushed>>
  BY Zenon DEF History!Commit, History!stopVars, History!flushVars
<1>3. InOrder' = InOrder /\ MarkerLast' = MarkerLast /\ (Putting' <=> Putting)
  BY <1>1, PairsStay DEF Putting
<1>4. disk' \in Seq(History!Row) /\ History!Range(disk') = History!Range(disk) \cup History!Range(txn)
  BY <1>1, RangeConcat
<1>5. Pairwise(disk', InOrder)
  <2>1. /\ Pairwise(disk, InOrder) /\ Pairwise(txn, InOrder)
        /\ Over(History!Range(disk), History!Range(txn), InOrder)
    BY DEF RowsChain
  <2> QED BY <1>1, <2>1, PairwiseConcat
<1>6. \A T : Over({}, T, InOrder) /\ Over(T, {}, InOrder)
  BY DEF Over
<1>7. <<>> \in Seq(History!Row)
  OBVIOUS
<1>8. History!TypeOK'
  BY <1>1, <1>2, <1>4, <1>7 DEF History!TypeOK
<1>9. StopTells'
  BY <1>1, <1>2, <1>3 DEF StopTells
<1>10. Batches'
  BY <1>1 DEF Batches
<1>11. HandedOver'
  BY <1>1, <1>3, <1>4 DEF HandedOver, Batches
<1>12. RowsChain'
  <2>1. Over(History!Range(disk'), History!Range(hQueue), InOrder)
    BY <1>4 DEF RowsChain, Over, Batches
  <2>2. Pairwise(<<>>, InOrder) /\ Pairwise(hQueue, InOrder)
    BY DEF RowsChain
  <2> QED BY <1>1, <1>3, <1>5, <1>6, <2>1, <2>2 DEF RowsChain
<1>13. RowsKept'
  BY <1>1, <1>3, <1>4 DEF RowsKept, History!NothingLost
<1> QED BY <1>8, <1>9, <1>10, <1>11, <1>12, <1>13 DEF HistoryInv

\* The transaction is rolled back: the whole batch is in hand again.
LEMMA CommitFailsKeeps == ASSUME HistoryInv, History!CommitFails PROVE HistoryInv'
<1> USE HistoryTypes, HistoryAssumption, RangeEmpty
<1>1. /\ worker = "batch" /\ hand = <<>> /\ txn' = <<>> /\ dbLock' = "free"
      /\ hand' = batch /\ worker' = "retry"
      /\ UNCHANGED <<rows, settings, hQueue, batch, disk, hReported, cfgLock, hLoop, stopping, stopAt, flush>>
  BY DEF History!CommitFails, History!stopVars, History!flushVars
<1>2. UNCHANGED <<running, idle, flushed>>
  BY Zenon DEF History!CommitFails, History!stopVars, History!flushVars
<1>3. InOrder' = InOrder /\ MarkerLast' = MarkerLast /\ (Putting' <=> Putting)
  BY <1>1, PairsStay DEF Putting
<1>4. \A T : Over({}, T, InOrder) /\ Over(T, {}, InOrder)
  BY DEF Over
<1>5. <<>> \in Seq(History!Row)
  OBVIOUS
<1>6. History!TypeOK'
  BY <1>1, <1>2, <1>5 DEF History!TypeOK
<1>7. StopTells'
  BY <1>1, <1>2, <1>3 DEF StopTells
<1>8. Batches'
  BY <1>1 DEF Batches
<1>9. HandedOver'
  BY <1>1, <1>3 DEF HandedOver
<1>10. RowsChain'
  <2>1. Pairwise(<<>>, InOrder)
    OBVIOUS
  <2>2. History!Range(txn') = {}
    BY <1>1
  <2> QED BY <1>1, <1>3, <1>4, <2>1, <2>2 DEF RowsChain
<1>11. RowsKept'
  BY <1>1, <1>3 DEF RowsKept, History!NothingLost, Batches
<1> QED BY <1>6, <1>7, <1>8, <1>9, <1>10, <1>11 DEF HistoryInv

\* One of them is run by itself.
LEMMA RetryKeeps == ASSUME HistoryInv, History!Retry PROVE HistoryInv'
<1> USE HistoryTypes, HistoryAssumption
<1>1. /\ worker = "retry" /\ hand # <<>> /\ hand' = Tail(hand)
      /\ \/ disk' = Append(disk, Head(hand)) /\ hReported' = hReported
         \/ hReported' = hReported \cup {Head(hand)} /\ disk' = disk
      /\ UNCHANGED <<rows, settings, hQueue, worker, txn, batch, dbLock, cfgLock, hLoop, stopping, stopAt,
                     flush>>
  BY DEF History!Retry, History!stopVars, History!flushVars
<1>2. UNCHANGED <<running, idle, flushed>>
  BY Zenon DEF History!Retry, History!stopVars, History!flushVars
<1>3. InOrder' = InOrder /\ MarkerLast' = MarkerLast /\ (Putting' <=> Putting)
  BY <1>1, PairsStay DEF Putting
<1>4. /\ Head(hand) \in History!Row /\ hand' \in Seq(History!Row)
      /\ History!Range(hand) = {Head(hand)} \cup History!Range(hand')
  BY <1>1, RangeTail
<1>5. Pairwise(hand', InOrder) /\ Over({Head(hand)}, History!Range(hand'), InOrder)
  <2>1. Pairwise(hand, InOrder)
    BY DEF RowsChain
  <2> QED BY <1>1, <2>1, PairwiseTail
<1>6. /\ disk' \in Seq(History!Row) /\ hReported' \subseteq History!Row
      /\ History!Range(disk) \subseteq History!Range(disk') /\ hReported \subseteq hReported'
      /\ History!Range(disk') \subseteq History!Range(disk) \cup {Head(hand)}
      /\ Head(hand) \in History!Range(disk') \cup hReported'
      /\ Pairwise(disk', InOrder)
  <2>1. hReported \subseteq History!Row
    BY DEF History!TypeOK
  <2>2. Pairwise(disk, InOrder) /\ Over(History!Range(disk), {Head(hand)}, InOrder)
    BY <1>4 DEF RowsChain, Over
  <2>3. CASE disk' = Append(disk, Head(hand)) /\ hReported' = hReported
    <3>1. /\ disk' \in Seq(History!Row)
          /\ History!Range(disk') = History!Range(disk) \cup {Head(hand)}
      BY <1>4, <2>3, RangeAppend
    <3>2. Pairwise(disk', InOrder)
      BY <1>4, <2>2, <2>3, PairwiseAppend
    <3> QED BY <2>1, <2>3, <3>1, <3>2
  <2>4. CASE hReported' = hReported \cup {Head(hand)} /\ disk' = disk
    BY <1>4, <2>1, <2>2, <2>4
  <2> QED BY <1>1, <2>3, <2>4
<1>7. txn = <<>> /\ History!Range(txn) = {} /\ Head(hand) \in History!Range(batch)
  BY <1>1, <1>4, RangeEmpty DEF Batches
<1>8. History!TypeOK'
  BY <1>1, <1>2, <1>4, <1>6 DEF History!TypeOK
<1>9. StopTells'
  BY <1>1, <1>2, <1>3 DEF StopTells
<1>10. Batches'
  BY <1>1, <1>4 DEF Batches
<1>11. HandedOver'
  BY <1>1, <1>3, <1>6, <1>7 DEF HandedOver
<1>12. RowsChain'
  <2>1. /\ Over(History!Range(disk'), History!Range(hand'), InOrder)
        /\ Over(History!Range(disk'), History!Range(txn), InOrder)
        /\ Over(History!Range(disk'), History!Range(hQueue), InOrder)
        /\ Over(History!Range(txn), History!Range(hand'), InOrder)
    BY <1>4, <1>5, <1>6, <1>7 DEF RowsChain, Over
  <2> QED BY <1>1, <1>3, <1>5, <1>6, <2>1 DEF RowsChain
<1>13. RowsKept'
  BY <1>1, <1>3, <1>4, <1>6 DEF RowsKept, History!NothingLost
<1> QED BY <1>8, <1>9, <1>10, <1>11, <1>12, <1>13 DEF HistoryInv

\* All of them were.
LEMMA RetriedKeeps == ASSUME HistoryInv, History!Retried PROVE HistoryInv'
<1> USE HistoryTypes, HistoryAssumption, RangeEmpty
<1>1. /\ worker = "retry" /\ hand = <<>> /\ worker' = "look" /\ batch' = <<>>
      /\ UNCHANGED <<rows, settings, hQueue, hand, txn, disk, hReported, dbLock, cfgLock, hLoop, stopping,
                     stopAt, flush>>
  BY DEF History!Retried, History!stopVars, History!flushVars
<1>2. UNCHANGED <<running, idle, flushed>>
  BY Zenon DEF History!Retried, History!stopVars, History!flushVars
<1>3. InOrder' = InOrder /\ MarkerLast' = MarkerLast /\ (Putting' <=> Putting)
  BY <1>1, PairsStay DEF Putting
<1>4. txn = <<>> /\ \A T : Over({}, T, InOrder)
  BY <1>1 DEF Batches, Over
<1>5. <<>> \in Seq(History!Row)
  OBVIOUS
<1>6. History!TypeOK'
  BY <1>1, <1>2, <1>5 DEF History!TypeOK
<1>7. StopTells'
  BY <1>1, <1>2, <1>3 DEF StopTells
<1>8. Batches'
  BY <1>1, <1>4 DEF Batches
<1>9. HandedOver'
  BY <1>1, <1>3 DEF HandedOver
<1>10. RowsChain'
  <2>1. Pairwise(<<>>, InOrder) /\ History!Range(batch') = {}
    BY <1>1
  <2> QED BY <1>1, <1>3, <1>4, <2>1 DEF RowsChain
<1>11. RowsKept'
  BY <1>1, <1>3 DEF RowsKept, History!NothingLost
<1> QED BY <1>6, <1>7, <1>8, <1>9, <1>10, <1>11 DEF HistoryInv

\* stop() is called: what it waits for is what was handed over until now.
LEMMA StopKeeps == ASSUME HistoryInv, History!Stop PROVE HistoryInv'
<1> USE HistoryTypes, HistoryAssumption
<1>1. /\ stopping = "no" /\ stopping' = "joining"
      /\ stopAt' = IF Putting THEN rows - 1 ELSE rows
      /\ hQueue' = IF History!Full THEN hQueue ELSE Append(hQueue, History!Marker)
      /\ UNCHANGED <<rows, settings, worker, hand, txn, batch, disk, hReported, dbLock, cfgLock, hLoop, flush>>
  BY DEF History!Stop, Putting, History!workerVars, History!flushVars
<1>2. ~running' /\ running' \in BOOLEAN /\ UNCHANGED <<idle, flushed>>
  BY Zenon DEF History!Stop, History!flushVars
<1>3. /\ History!Marker \notin History!Range(hQueue) /\ worker # "end" /\ (Putting' <=> Putting)
      /\ (Putting => rows # 0)
  BY <1>1 DEF StopTells, Putting
<1>4. stopAt' \in Nat /\ stopAt' <= rows /\ (Putting => stopAt' < rows)
  BY <1>1, <1>3
<1>5. \A x, y \in Nat : <<x, y>> \in InOrder => <<x, y>> \in InOrder'
  <2>1. \A r : Counts(r)' => Counts(r)
    BY <1>1 DEF Counts
  <2> QED BY <2>1 DEF InOrder
<1>6. \A y \in Nat : <<y, History!Marker>> \in InOrder'
  BY DEF InOrder, Counts
<1>7. \A x, y \in Nat : x # History!Marker => <<x, y>> \in MarkerLast'
  BY DEF MarkerLast
<1>8. \A s : (\A i \in 1 .. Len(s) : s[i] \in Nat) /\ Pairwise(s, InOrder) => Pairwise(s, InOrder')
  BY <1>5 DEF Pairwise
<1>9. \A S, T \in SUBSET Nat : Over(S, T, InOrder) => Over(S, T, InOrder')
  BY <1>5 DEF Over
<1>10. /\ hQueue' \in Seq(History!Row \cup {History!Marker}) /\ Len(hQueue') <= QueueMax
       /\ History!Range(hQueue) \subseteq History!Range(hQueue')
       /\ History!Range(hQueue') \subseteq History!Range(hQueue) \cup {History!Marker}
       /\ Pairwise(hQueue', InOrder') /\ Pairwise(hQueue', MarkerLast')
  <2>1. Pairwise(hQueue, InOrder')
    <3>1. \A i \in 1 .. Len(hQueue) : hQueue[i] \in Nat
      OBVIOUS
    <3>2. Pairwise(hQueue, InOrder)
      BY DEF RowsChain
    <3> QED BY <1>8, <3>1, <3>2
  <2>2. Pairwise(hQueue, MarkerLast')
    <3>1. \A i \in 1 .. Len(hQueue) : hQueue[i] \in History!Range(hQueue) /\ hQueue[i] \in Nat
      <4>1. DOMAIN hQueue = 1 .. Len(hQueue)
        OBVIOUS
      <4>2. \A i \in 1 .. Len(hQueue) : hQueue[i] \in History!Range(hQueue)
        BY <4>1 DEF History!Range
      <4> QED BY <4>2
    <3> QED BY <1>3, <1>7, <3>1 DEF Pairwise
  <2>3. Len(hQueue) \in Nat /\ Len(hQueue) <= QueueMax
    BY DEF History!TypeOK
  <2>4. CASE History!Full
    BY <1>1, <2>1, <2>2, <2>3, <2>4
  <2>5. CASE ~History!Full
    <3>1. hQueue' = Append(hQueue, History!Marker) /\ History!Marker \in History!Row \cup {History!Marker}
      BY <1>1, <2>5
    <3>2. /\ hQueue' \in Seq(History!Row \cup {History!Marker}) /\ Len(hQueue') = Len(hQueue) + 1
          /\ History!Range(hQueue') = History!Range(hQueue) \cup {History!Marker}
      <4>1. hQueue \in Seq(History!Row \cup {History!Marker})
        OBVIOUS
      <4> QED BY ONLY <3>1, <4>1, RangeAppend
    <3>3. Over(History!Range(hQueue), {History!Marker}, InOrder')
      BY <1>6 DEF Over
    <3>4. Over(History!Range(hQueue), {History!Marker}, MarkerLast')
      BY <1>3, <1>7 DEF Over
    <3>5. Pairwise(hQueue', InOrder') /\ Pairwise(hQueue', MarkerLast')
      BY <2>1, <2>2, <3>1, <3>3, <3>4, PairwiseAppend
    <3>6. Len(hQueue') <= QueueMax
      BY <2>3, <2>5, <3>2 DEF History!Full
    <3> QED BY <3>2, <3>5, <3>6
  <2> QED BY <2>4, <2>5
<1>11. History!TypeOK'
  <2>1. stopAt' \in 0 .. MaxRows
    BY <1>4
  <2> QED BY <1>1, <1>2, <1>10, <2>1 DEF History!TypeOK
<1>12. StopTells'
  BY <1>1, <1>2, <1>3, <1>4, <1>10 DEF StopTells
<1>13. Batches'
  BY <1>1 DEF Batches
<1>14. HandedOver'
  <2>1. 0 <= rows /\ (Putting => 0 < rows)
    BY <1>3
  <2> QED BY <1>1, <1>3, <1>10, <2>1 DEF HandedOver
<1>15. RowsChain'
  <2>1. \A s \in Seq(History!Row) : \A i \in 1 .. Len(s) : s[i] \in Nat
    OBVIOUS
  <2>2. /\ Pairwise(disk, InOrder') /\ Pairwise(txn, InOrder') /\ Pairwise(hand, InOrder')
        /\ Pairwise(batch, InOrder')
    BY <1>8, <2>1 DEF RowsChain
  <2>3. /\ Over(History!Range(disk), History!Range(hand), InOrder')
        /\ Over(History!Range(disk), History!Range(txn), InOrder')
        /\ Over(History!Range(disk), History!Range(hQueue), InOrder')
        /\ Over(History!Range(txn), History!Range(hand), InOrder')
        /\ Over(History!Range(batch), History!Range(hQueue), InOrder')
        /\ worker = "batch" => Over(History!Range(disk), History!Range(batch), InOrder')
    BY <1>9 DEF RowsChain
  <2>4. \A T \in SUBSET Nat : Over(T, History!Range(hQueue), InOrder') => Over(T, History!Range(hQueue'), InOrder')
    BY <1>6, <1>10 DEF Over
  <2> QED BY <1>1, <1>10, <2>2, <2>3, <2>4 DEF RowsChain
<1>16. RowsKept'
  BY <1>1, <1>3, <1>10 DEF RowsKept, History!NothingLost
<1> QED BY <1>11, <1>12, <1>13, <1>14, <1>15, <1>16 DEF HistoryInv

\* Nothing happens to a writer whose variables stay.
LEMMA HistoryStutter == ASSUME HistoryInv, UNCHANGED HistoryVars PROVE HistoryInv'
<1>1. /\ UNCHANGED <<rows, settings, hQueue, worker, hand, txn, batch, disk, hReported, dbLock,
                     hLoop, stopping, stopAt, flush>>
      /\ UNCHANGED <<running, idle, cfgLock, flushed>>
  BY DEF HistoryVars
<1>2. History!TypeOK'
  BY <1>1, HistoryTypes DEF History!TypeOK
<1> QED BY <1>1, <1>2, RowsStay DEF Putting

\* What saves settings, looks whether the queue is empty, waits or reports.
LEMMA AsideKeeps ==
    ASSUME HistoryInv,
           \/ History!SaveBegins \/ History!SaveEnds \/ History!Look \/ History!Mark
           \/ History!Stopped \/ History!FlushBegins \/ History!FlushEnds
    PROVE  HistoryInv'
<1> USE HistoryTypes
<1>1. CASE History!SaveBegins
  <2>1. /\ hLoop = "ready" /\ hLoop' = "save"
        /\ UNCHANGED <<rows, settings, hQueue, worker, hand, txn, batch, disk, hReported, dbLock,
                       stopping, stopAt, flush>>
    BY <1>1 DEF History!SaveBegins, History!workerVars, History!stopVars, History!flushVars
  <2>2. cfgLock' /\ cfgLock' \in BOOLEAN /\ UNCHANGED <<running, idle, flushed>>
    BY <1>1, Zenon DEF History!SaveBegins, History!stopVars, History!flushVars
  <2>3. History!TypeOK'
    BY <2>1, <2>2 DEF History!TypeOK
  <2> QED BY <2>1, <2>2, <2>3, RowsStay DEF Putting
<1>2. CASE History!SaveEnds
  <2>1. /\ hLoop = "save" /\ hLoop' = "ready"
        /\ UNCHANGED <<rows, settings, hQueue, worker, hand, txn, batch, disk, hReported, dbLock,
                       stopping, stopAt, flush>>
    BY <1>2 DEF History!SaveEnds, History!workerVars, History!stopVars, History!flushVars
  <2>2. ~cfgLock' /\ cfgLock' \in BOOLEAN /\ UNCHANGED <<running, idle, flushed>>
    BY <1>2, Zenon DEF History!SaveEnds, History!stopVars, History!flushVars
  <2>3. History!TypeOK'
    BY <2>1, <2>2 DEF History!TypeOK
  <2> QED BY <2>1, <2>2, <2>3, RowsStay DEF Putting
<1>3. CASE History!Look
  <2>1. /\ worker = "look" /\ worker' \in {"get", "mark"}
        /\ UNCHANGED <<rows, settings, hQueue, hand, txn, batch, disk, hReported, dbLock, hLoop,
                       stopping, stopAt, flush>>
    BY <1>3 DEF History!Look, History!stopVars, History!flushVars
  <2>2. UNCHANGED <<running, idle, cfgLock, flushed>>
    BY <1>3, Zenon DEF History!Look, History!stopVars, History!flushVars
  <2>3. History!TypeOK'
    BY <2>1, <2>2 DEF History!TypeOK
  <2> QED BY <2>1, <2>2, <2>3, RowsStay DEF Putting
<1>4. CASE History!Mark
  <2>1. /\ worker = "mark" /\ worker' = "get"
        /\ UNCHANGED <<rows, settings, hQueue, hand, txn, batch, disk, hReported, dbLock, hLoop,
                       stopping, stopAt, flush>>
    BY <1>4 DEF History!Mark, History!stopVars, History!flushVars
  <2>2. UNCHANGED <<running, cfgLock, flushed>> /\ idle' \in BOOLEAN
    BY <1>4, Zenon DEF History!Mark, History!stopVars, History!flushVars
  <2>3. History!TypeOK'
    BY <2>1, <2>2 DEF History!TypeOK
  <2> QED BY <2>1, <2>2, <2>3, RowsStay DEF Putting
<1>5. CASE History!Stopped
  <2>1. /\ stopping = "joining" /\ stopping' = "ended"
        /\ hReported' = hReported \cup (History!Range(hQueue) \ {History!Marker})
        /\ UNCHANGED <<rows, settings, hQueue, worker, hand, txn, batch, disk, dbLock, hLoop,
                       stopAt, flush>>
    BY <1>5 DEF History!Stopped, History!workerVars, History!flushVars
  <2>2. UNCHANGED <<running, idle, cfgLock, flushed>>
    BY <1>5, Zenon DEF History!Stopped, History!flushVars
  <2>3. hReported' \subseteq History!Row /\ hReported \subseteq hReported'
    <3>1. hReported \subseteq History!Row
      BY DEF History!TypeOK
    <3>2. History!Range(hQueue) \subseteq History!Row \cup {History!Marker}
      <4>1. DOMAIN hQueue = 1 .. Len(hQueue)
            /\ \A i \in 1 .. Len(hQueue) : hQueue[i] \in History!Row \cup {History!Marker}
        OBVIOUS
      <4> QED BY <4>1 DEF History!Range
    <3> QED BY <2>1, <3>1, <3>2
  <2>4. History!TypeOK'
    BY <2>1, <2>2, <2>3 DEF History!TypeOK
  <2> QED BY <2>1, <2>2, <2>3, <2>4, RowsStay DEF Putting
<1>6. CASE History!FlushBegins
  <2>1. /\ flush' = (History!Range(hQueue) \cup History!Range(batch))
                      \ (History!Range(disk) \cup hReported)
        /\ UNCHANGED <<rows, settings, hQueue, worker, hand, txn, batch, disk, hReported, dbLock,
                       hLoop, stopping, stopAt>>
    BY <1>6 DEF History!FlushBegins, History!workerVars, History!stopVars
  <2>2. running /\ UNCHANGED <<running, idle, cfgLock, flushed>>
    BY <1>6, Zenon DEF History!FlushBegins, History!stopVars
  <2>3. flush' \subseteq History!Row
    <3>1. History!Marker \notin History!Range(hQueue)
      BY <2>2 DEF StopTells
    <3>2. History!Range(hQueue) \subseteq History!Row \cup {History!Marker}
      <4>1. DOMAIN hQueue = 1 .. Len(hQueue)
            /\ \A i \in 1 .. Len(hQueue) : hQueue[i] \in History!Row \cup {History!Marker}
        OBVIOUS
      <4> QED BY <4>1 DEF History!Range
    <3> QED BY <2>1, <3>1, <3>2
  <2>4. History!TypeOK'
    BY <2>1, <2>2, <2>3 DEF History!TypeOK
  <2> QED BY <2>1, <2>2, <2>4, RowsStay DEF Putting
<1>7. CASE History!FlushEnds
  <2>1. UNCHANGED <<rows, settings, hQueue, worker, hand, txn, batch, disk, hReported, dbLock,
                    hLoop, stopping, stopAt, flush>>
    BY <1>7 DEF History!FlushEnds, History!workerVars, History!stopVars
  <2>2. UNCHANGED <<running, idle, cfgLock>> /\ flushed' \in BOOLEAN
    BY <1>7, Zenon DEF History!FlushEnds, History!stopVars
  <2>3. History!TypeOK'
    BY <2>1, <2>2 DEF History!TypeOK
  <2> QED BY <2>1, <2>2, <2>3, RowsStay DEF Putting
<1> QED BY <1>1, <1>2, <1>3, <1>4, <1>5, <1>6, <1>7

\* Every step of the loop, the worker, stop() or flush() keeps the invariant.
LEMMA HistoryStep == ASSUME HistoryInv, History!Next PROVE HistoryInv'
BY HandKeeps, PutKeeps, WriteInlineKeeps, GetKeeps, EndsKeeps, RunItemKeeps, CommitKeeps,
   CommitFailsKeeps, RetryKeeps, RetriedKeeps, StopKeeps, AsideKeeps
   DEF History!Next, History!Loop, History!Worker

\* What the invariant says of the rows.
LEMMA HistorySafe ==
    ASSUME HistoryInv PROVE History!TypeOK /\ History!NothingLost /\ History!RowsInOrder
<1> USE HistoryTypes
<1>1. History!TypeOK
  OBVIOUS
<1>2. History!NothingLost
  BY DEF RowsKept
<1>3. ASSUME NEW i \in 1 .. Len(disk), NEW j \in 1 .. Len(disk), i < j,
             stopping = "no" \/ disk[i] <= stopAt, stopping = "no" \/ disk[j] <= stopAt
      PROVE  disk[i] < disk[j]
  <2>1. disk[i] \in History!Row /\ disk[j] \in History!Row
    BY <1>3
  <2>2. disk[i] \in Nat /\ disk[j] \in Nat /\ Counts(disk[i]) /\ Counts(disk[j])
    BY <1>3, <2>1 DEF Counts
  <2>3. <<disk[i], disk[j]>> \in InOrder
    BY <1>3 DEF RowsChain, Pairwise
  <2> QED BY <2>2, <2>3, PairsAre
<1>4. History!RowsInOrder
  BY <1>3 DEF History!RowsInOrder
<1> QED BY <1>1, <1>2, <1>4

-----------------------------------------------------------------------------
(* RequestLane: orders are prompt and paced, and a penalty holds.          *)
(* Who sleeps has its lane's lock, and time does not pass its waking.  The *)
(* orders behind it are promised one turn each after that.  At any time    *)
(* since any other, what was sent and what the bucket holds are paid by a  *)
(* full bucket, the time that passed and one order, which the sleeper may  *)
(* be that gave its token before.                                          *)

\* The price of k orders, and the time of i turns.
Price(k) == k * Spacing
Turn == Lane!Larger(Patience, Spacing)
Turns(i) == i * Turn

\* Arithmetic of prices and turns.
LEMMA Multiples ==
    ASSUME NEW c \in Nat
    PROVE  /\ \A k \in Nat : k * c \in Nat /\ (k + 1) * c = k * c + c
           /\ \A j, k \in Nat : j <= k => j * c <= k * c
           /\ 0 * c = 0 /\ 1 * c = c
<1>1. \A k \in Nat : k * c \in Nat /\ (k + 1) * c = k * c + c
  OBVIOUS
<1>2. \A j, k \in Nat : j <= k => j * c <= k * c
  <2> SUFFICES ASSUME NEW j \in Nat, NEW k \in Nat, j <= k PROVE j * c <= k * c
    OBVIOUS
  <2>1. PICK d \in Nat : k = j + d
    <3>1. k - j \in Nat /\ k = j + (k - j)
      OBVIOUS
    <3> QED BY <3>1
  <2>2. k * c = j * c + d * c /\ d * c \in Nat /\ j * c \in Nat
    BY <2>1
  <2> QED BY <2>2
<1> QED BY <1>1, <1>2

\* What division leaves is less than the divisor.
LEMMA Divides ==
    ASSUME NEW d \in Nat, NEW c \in Nat, c > 0
    PROVE  /\ d \div c \in Nat /\ (d \div c) * c \in Nat
           /\ d < (d \div c) * c + c
<1>1. d \div c \in Nat
  OBVIOUS
<1>2. d < (d \div c) * c + c
  OBVIOUS
<1>3. \A q \in Nat : q * c \in Nat
  OBVIOUS
<1> QED BY <1>1, <1>2, <1>3

\* Prices and turns, as facts.
LEMMA Prices ==
    /\ \A k \in Nat : Price(k) \in Nat /\ Price(k + 1) = Price(k) + Spacing
    /\ \A j, k \in Nat : j <= k => Price(j) <= Price(k)
    /\ Price(0) = 0 /\ Lane!Full = Price(Burst) /\ Lane!Full \in Nat /\ Spacing <= Lane!Full
    /\ Spacing \in Nat /\ 0 < Spacing
    /\ \A i \in Nat : Turns(i) \in Nat /\ Turns(i + 1) = Turns(i) + Turn
    /\ Turns(0) = 0 /\ Turn \in Nat /\ Patience <= Turn /\ Spacing <= Turn
<1> USE LaneAssumption
<1>1. Turn \in Nat /\ Patience <= Turn /\ Spacing <= Turn /\ Spacing \in Nat /\ 0 < Spacing
  BY DEF Turn, Lane!Larger
<1>2. /\ \A k \in Nat : Price(k) \in Nat /\ Price(k + 1) = Price(k) + Spacing
      /\ \A j, k \in Nat : j <= k => Price(j) <= Price(k)
      /\ Price(0) = 0 /\ Price(1) = Spacing
  BY <1>1, Multiples DEF Price
<1>3. \A i \in Nat : Turns(i) \in Nat /\ Turns(i + 1) = Turns(i) + Turn
  BY <1>1, Multiples DEF Turns
<1>4. Turns(0) = 0
  BY <1>1, Multiples DEF Turns
<1>5. Lane!Full = Price(Burst)
  BY DEF Lane!Full, Price
<1>6. Burst \in Nat /\ 1 <= Burst
  OBVIOUS
<1>7. Price(1) <= Price(Burst)
  BY <1>2, <1>6
<1> QED BY <1>1, <1>2, <1>3, <1>4, <1>5, <1>6, <1>7

\* What can be paid is within the rate.
LEMMA WithinRate ==
    ASSUME NEW k \in Nat, NEW d \in Nat, Price(k) <= Lane!Full + d + Spacing
    PROVE  k <= Burst + 1 + (d \div Spacing)
<1> USE Prices, LaneAssumption
<1> DEFINE q == d \div Spacing
<1>1. q \in Nat /\ d < Price(q + 1)
  <2>1. q \in Nat /\ d < q * Spacing + Spacing
    BY Divides
  <2>2. Price(q + 1) = q * Spacing + Spacing
    <3> HIDE DEF q
    <3>1. Price(q + 1) = Price(q) + Spacing
      BY <2>1
    <3> QED BY <3>1 DEF Price
  <2> QED BY <2>1, <2>2
<1> HIDE DEF q
<1>2. ~(k <= Burst + 1 + q) => FALSE
  <2> SUFFICES ASSUME ~(k <= Burst + 1 + q) PROVE FALSE
    OBVIOUS
  <2>1. Burst + 2 + q \in Nat /\ Burst + 2 + q <= k /\ Burst \in Nat
    BY <1>1
  <2>2. Price(Burst + 2 + q) <= Price(k)
    BY <2>1
  <2>3. Price(Burst + 2 + q) = Price(Burst) + Spacing + Price(q + 1)
    BY <1>1, <2>1 DEF Price
  <2>4. Price(q + 1) \in Nat /\ Price(Burst) \in Nat /\ Price(k) \in Nat
    BY <1>1, <2>1
  <2> QED BY <1>1, <2>2, <2>3, <2>4
<1> QED BY <1>2 DEF q

\* The orders sent in a stretch of time, the queue of the orders, and who sleeps.
Sent(s, t) == Cardinality({r \in Urgent : gone[r] \in s .. t})
Orders == lQueue["order"]
Asleep(r) == phase[r] = "asleep"

\* The types: nothing happened later than now.
LaneTypes ==
    /\ clock \in 1 .. MaxClock /\ penalty \in Nat /\ credit \in 0 .. Lane!Full
    /\ lastUrgent \in 0 .. clock /\ lastPoll \in -PollSpacing .. clock
    /\ lQueue \in [Lane!Lane -> Seq(Lane!Request)]
    /\ phase \in [Lane!Request -> {"idle", "queued", "asleep", "sent", "over"}]
    /\ wake \in [Lane!Request -> Nat] /\ due \in [Urgent -> Nat]
    /\ gone \in [Lane!Request -> 0 .. clock] /\ leaks \in [Lane!Lane -> {0, 1}]

\* Who waits or sleeps is queued once, and the sleeper is the first.
Queues ==
    /\ \A l \in Lane!Lane : \A i \in 1 .. Len(lQueue[l]) :
         /\ Lane!LaneOf(lQueue[l][i]) = l /\ phase[lQueue[l][i]] \in {"queued", "asleep"}
         /\ Asleep(lQueue[l][i]) => i = 1
         /\ \A j \in 1 .. Len(lQueue[l]) : lQueue[l][i] = lQueue[l][j] => i = j
    /\ \A r \in Lane!Request : phase[r] \in {"queued", "asleep"} =>
         \E i \in 1 .. Len(lQueue[Lane!LaneOf(r)]) : lQueue[Lane!LaneOf(r)][i] = r

\* A sleep ends within a turn, and no earlier than the penalty once a request left in it.
Sleeps ==
    \A r \in Lane!Request : Asleep(r) =>
        /\ clock <= wake[r]
        /\ r \in Urgent => wake[r] <= clock + Turn
        /\ leaks[Lane!LaneOf(r)] = 1 => wake[r] >= penalty

\* One turn for each order, from the waking of the first.
From == IF Len(Orders) > 0 /\ Asleep(Orders[1]) THEN wake[Orders[1]] - Turn ELSE clock
Dues == \A i \in 1 .. Len(Orders) : due[Orders[i]] >= From + Turns(i)

\* The sleeper gave its token before, and wakes to find none.
Spent == \E r \in Urgent : Asleep(r) /\ credit + (wake[r] - lastUrgent) < Spacing
Slack == IF Spent THEN 0 ELSE Spacing
Paced ==
    /\ \A s, t \in 1 .. clock : s <= t => Price(Sent(s, t)) <= Lane!Full + (t - s) + Spacing
    /\ \A s \in 1 .. clock :
         Price(Sent(s, clock)) + Lane!Refill <= Lane!Full + (clock - s) + Slack

LaneInv == LaneTypes /\ Queues /\ Sleeps /\ Dues /\ Paced

\* The lanes of the requests.
LEMMA Lanes ==
    /\ Lane!Lane = {"order", "poll"} /\ Urgent \subseteq Lane!Request
    /\ \A r \in Lane!Request : /\ Lane!LaneOf(r) \in Lane!Lane
                               /\ Lane!LaneOf(r) = "order" <=> r \in Urgent
                               /\ Lane!LaneOf(r) = "poll" <=> r \notin Urgent
BY DEF Lane!Lane, Lane!Request, Lane!LaneOf

\* The bucket, refilled.
LEMMA RefillIs ==
    ASSUME LaneTypes
    PROVE  /\ Lane!Refill \in 0 .. Lane!Full /\ Lane!Refill \in Nat
           /\ Lane!Refill <= credit + (clock - lastUrgent)
           /\ Lane!Refill < Spacing => Lane!Refill = credit + (clock - lastUrgent)
           /\ credit + (clock - lastUrgent) < Spacing => Lane!Refill < Spacing
<1>1. credit \in Nat /\ clock \in Nat /\ lastUrgent \in Nat /\ lastUrgent <= clock /\ credit <= Lane!Full
  BY Prices DEF LaneTypes
<1>2. PICK p \in Nat : p = credit + (clock - lastUrgent)
  BY <1>1
<1>3. PICK f \in Nat : f = Lane!Full /\ Spacing <= f
  BY Prices
<1>4. Lane!Refill = IF Lane!Full < credit + clock - lastUrgent THEN Lane!Full ELSE credit + clock - lastUrgent
  BY DEF Lane!Refill, Lane!Smaller
<1>5. Lane!Refill = IF f < p THEN f ELSE p
  <2>1. credit + clock - lastUrgent = p
    BY <1>1, <1>2
  <2> QED BY <1>3, <1>4, <2>1
<1>6. Spacing \in Nat
  BY Prices
<1>7. /\ Lane!Refill \in 0 .. f /\ Lane!Refill \in Nat /\ Lane!Refill <= p
      /\ Lane!Refill < Spacing => Lane!Refill = p
      /\ p < Spacing => Lane!Refill < Spacing
  BY <1>2, <1>3, <1>5, <1>6
<1> QED BY <1>2, <1>3, <1>7

\* How many left between two times is a number, and what a departure adds to it.
LEMMA SentIs ==
    ASSUME NEW s, NEW t
    PROVE  Sent(s, t) \in Nat
<1>1. IsFiniteSet({r \in Urgent : gone[r] \in s .. t})
  BY LaneAssumption, FS_Subset
<1> QED BY <1>1, FS_CardinalityType DEF Sent

\* While nobody leaves, the count stays.
LEMMA SentStays ==
    ASSUME \A r \in Urgent : gone'[r] = gone[r], NEW CONSTANT s, NEW CONSTANT t
    PROVE  Sent(s, t)' = Sent(s, t)
<1>1. {r \in Urgent : gone'[r] \in s .. t} = {r \in Urgent : gone[r] \in s .. t}
  OBVIOUS
<1> QED BY <1>1 DEF Sent

\* Who leaves adds one to the count up to now, and nothing to an earlier one.
LEMMA SentLeaves ==
    ASSUME NEW CONSTANT r \in Urgent, \A u \in Urgent \ {r} : gone'[u] = gone[u], gone'[r] = clock,
           clock \in Nat, NEW CONSTANT s \in Nat, NEW CONSTANT t \in Nat
    PROVE  /\ Sent(s, t)' \in Nat /\ Sent(s, t)' <= Sent(s, t) + 1
           /\ t < clock => Sent(s, t)' <= Sent(s, t)
<1> DEFINE A == {u \in Urgent : gone[u] \in s .. t}
           B == {u \in Urgent : gone'[u] \in s .. t}
<1>1. IsFiniteSet(A) /\ IsFiniteSet(B)
  BY LaneAssumption, FS_Subset
<1>2. B \subseteq A \cup {r} /\ (t < clock => B \subseteq A)
  OBVIOUS
<1> HIDE DEF A, B
<1>3. /\ Cardinality(A) \in Nat /\ Cardinality(B) \in Nat /\ IsFiniteSet(A \cup {r})
      /\ Cardinality(A \cup {r}) <= Cardinality(A) + 1
  <2>1. Cardinality(A) \in Nat /\ Cardinality(B) \in Nat
    BY <1>1, FS_CardinalityType
  <2>2. /\ IsFiniteSet(A \cup {r})
        /\ Cardinality(A \cup {r}) = IF r \in A THEN Cardinality(A) ELSE Cardinality(A) + 1
    BY <1>1, FS_AddElement
  <2> QED BY <2>1, <2>2
<1>4. Cardinality(B) <= Cardinality(A \cup {r}) /\ Cardinality(A \cup {r}) \in Nat
  BY <1>2, <1>3, FS_Subset, FS_CardinalityType
<1>5. t < clock => Cardinality(B) <= Cardinality(A)
  BY <1>1, <1>2, FS_Subset
<1>6. Sent(s, t) = Cardinality(A) /\ Sent(s, t)' = Cardinality(B)
  BY DEF Sent, A, B
<1> QED BY <1>3, <1>4, <1>5, <1>6

\* The rate goes on being kept where no order leaves.
LEMMA PacedStays ==
    ASSUME LaneInv, UNCHANGED <<clock, credit, lastUrgent>>,
           \A r \in Urgent : gone'[r] = gone[r],
           \A r \in Urgent : Asleep(r)' => Asleep(r) /\ wake'[r] = wake[r]
    PROVE  Paced'
<1>1. Spent' => Spent
  BY DEF Spent
<1>2. Slack \in Nat /\ Slack' \in Nat /\ Slack <= Slack'
  <2>1. Spacing \in Nat
    BY Prices
  <2>2. CASE Spent
    BY <2>1, <2>2 DEF Slack
  <2>3. CASE ~Spent
    <3>1. ~Spent'
      BY <1>1, <2>3
    <3>2. Slack = Spacing /\ Slack' = Spacing
      BY <2>3, <3>1 DEF Slack
    <3> QED BY <2>1, <3>2
  <2> QED BY <2>2, <2>3
<1>3. Lane!Refill' = Lane!Refill
  BY DEF Lane!Refill
<1>4. ASSUME NEW s \in 1 .. clock, NEW t \in 1 .. clock, s <= t
      PROVE  Price(Sent(s, t)') <= Lane!Full + (t - s) + Spacing
  <2>1. Sent(s, t)' = Sent(s, t)
    BY SentStays
  <2> QED BY <1>4, <2>1 DEF LaneInv, Paced
<1>5. ASSUME NEW s \in 1 .. clock
      PROVE  Price(Sent(s, clock)') + Lane!Refill' <= Lane!Full + (clock - s) + Slack'
  <2>1. Sent(s, clock)' = Sent(s, clock)
    BY DEF Sent
  <2>2. Price(Sent(s, clock)) + Lane!Refill <= Lane!Full + (clock - s) + Slack
    BY DEF LaneInv, Paced
  <2>3. PICK p \in Nat, f \in Nat, q \in Nat, c \in Int :
          p = Price(Sent(s, clock)) /\ f = Lane!Full /\ q = Lane!Refill /\ c = clock - s
    <3>1. Price(Sent(s, clock)) \in Nat /\ Lane!Full \in Nat
      BY Prices, SentIs
    <3>2. Lane!Refill \in Nat /\ clock - s \in Int
      BY RefillIs DEF LaneInv, LaneTypes
    <3> QED BY <3>1, <3>2
  <2>4. PICK a \in Nat, b \in Nat : a = Slack /\ b = Slack' /\ a <= b
    BY <1>2
  <2>5. p + q <= f + c + b
    BY <2>2, <2>3, <2>4
  <2> QED BY <1>3, <2>1, <2>3, <2>4, <2>5
<1> QED BY <1>4, <1>5 DEF Paced

(***************************************************************************)
(* The queues.                                                             *)
(***************************************************************************)
Waiting(r) == phase[r] \in {"queued", "asleep"}
QueueOf(r) == lQueue[Lane!LaneOf(r)]

\* r leaves its queue from position i.
LeavesQueue(r, i) ==
    /\ i \in 1 .. Len(QueueOf(r)) /\ QueueOf(r)[i] = r
    /\ lQueue' \in [Lane!Lane -> Seq(Lane!Request)]
    /\ \A l \in Lane!Lane : l # Lane!LaneOf(r) => lQueue'[l] = lQueue[l]
    /\ Len(QueueOf(r)') = Len(QueueOf(r)) - 1
    /\ \A j \in 1 .. Len(QueueOf(r)') :
         QueueOf(r)'[j] = QueueOf(r)[IF j < i THEN j ELSE j + 1]

\* The first leaves by Tail.
LEMMA TailLeaves ==
    ASSUME LaneTypes, NEW CONSTANT r \in Lane!Request, Lane!Holder(r),
           lQueue' = [lQueue EXCEPT ![Lane!LaneOf(r)] = Tail(@)]
    PROVE  LeavesQueue(r, 1)
<1> DEFINE l == Lane!LaneOf(r)
           q == lQueue[l]
<1>1. l \in Lane!Lane
  BY Lanes
<1>2. q \in Seq(Lane!Request) /\ lQueue \in [Lane!Lane -> Seq(Lane!Request)]
  BY <1>1 DEF LaneTypes
<1>3. q # <<>> /\ r = Head(q)
  BY DEF Lane!Holder
<1>4. lQueue' = [lQueue EXCEPT ![l] = Tail(q)]
  OBVIOUS
<1> HIDE DEF q
<1>5. /\ Tail(q) \in Seq(Lane!Request) /\ Len(Tail(q)) = Len(q) - 1 /\ 1 \in 1 .. Len(q) /\ q[1] = r
      /\ \A j \in 1 .. Len(Tail(q)) : Tail(q)[j] = q[IF j < 1 THEN j ELSE j + 1]
  BY <1>2, <1>3
<1>6. lQueue'[l] = Tail(q) /\ \A k \in Lane!Lane : k # l => lQueue'[k] = lQueue[k]
  BY <1>1, <1>2, <1>4
<1>7. lQueue' \in [Lane!Lane -> Seq(Lane!Request)]
  BY <1>1, <1>2, <1>4, <1>5
<1>8. QueueOf(r) = q /\ QueueOf(r)' = Tail(q)
  BY <1>6 DEF QueueOf, q
<1> QED BY <1>5, <1>6, <1>7, <1>8 DEF LeavesQueue

\* A cancelled one leaves from where it is.
LEMMA RemoveLeaves ==
    ASSUME LaneTypes, NEW CONSTANT r \in Lane!Request,
           NEW CONSTANT i \in 1 .. Len(QueueOf(r)), QueueOf(r)[i] = r,
           lQueue' = [lQueue EXCEPT ![Lane!LaneOf(r)] = Lane!RemoveAt(@, i)]
    PROVE  LeavesQueue(r, i)
<1> DEFINE l == Lane!LaneOf(r)
           q == lQueue[l]
           s == SubSeq(q, 1, i - 1) \o SubSeq(q, i + 1, Len(q))
<1>1. l \in Lane!Lane
  BY Lanes
<1>2. q \in Seq(Lane!Request) /\ lQueue \in [Lane!Lane -> Seq(Lane!Request)]
  BY <1>1 DEF LaneTypes
<1>3. i \in 1 .. Len(q) /\ q[i] = r
  BY DEF QueueOf
<1>4. lQueue' = [lQueue EXCEPT ![l] = s]
  BY DEF Lane!RemoveAt
<1>5. s \in Seq(Lane!Request) /\ Len(s) = Len(q) - 1
      /\ \A j \in 1 .. Len(s) : s[j] = q[IF j < i THEN j ELSE j + 1]
  <2> HIDE DEF q
  <2> DEFINE a == SubSeq(q, 1, i - 1)
             b == SubSeq(q, i + 1, Len(q))
  <2>1. /\ a \in Seq(Lane!Request) /\ Len(a) = i - 1 /\ \A j \in 1 .. i - 1 : a[j] = q[j]
    BY <1>2, <1>3
  <2>2. /\ b \in Seq(Lane!Request) /\ Len(b) = Len(q) - i
        /\ \A j \in 1 .. Len(q) - i : b[j] = q[i + j]
    BY <1>2, <1>3
  <2>3. s = a \o b /\ Len(q) \in Nat
    BY <1>2
  <2> HIDE DEF a, b, s
  <2>4. s \in Seq(Lane!Request) /\ Len(s) = Len(a) + Len(b)
        /\ \A j \in 1 .. Len(s) : s[j] = IF j <= Len(a) THEN a[j] ELSE b[j - Len(a)]
    <3>1. a \in Seq(Lane!Request) /\ b \in Seq(Lane!Request)
      BY <2>1, <2>2
    <3>2. /\ a \o b \in Seq(Lane!Request) /\ Len(a \o b) = Len(a) + Len(b)
          /\ \A j \in 1 .. Len(a) + Len(b) : (a \o b)[j] = IF j <= Len(a) THEN a[j] ELSE b[j - Len(a)]
      BY ONLY <3>1, ConcatProperties
    <3>3. s = a \o b
      BY <2>3
    <3> QED BY <3>2, <3>3
  <2>5. Len(s) = Len(q) - 1
    BY <1>3, <2>1, <2>2, <2>3, <2>4
  <2>6. ASSUME NEW j \in 1 .. Len(s) PROVE s[j] = q[IF j < i THEN j ELSE j + 1]
    <3>1. CASE j < i
      <4>1. s[j] = a[j] /\ j \in 1 .. i - 1
        BY <1>3, <2>1, <2>4, <3>1
      <4> QED BY <2>1, <3>1, <4>1
    <3>2. CASE ~(j < i)
      <4>1. s[j] = b[j - (i - 1)] /\ j - (i - 1) \in 1 .. Len(q) - i
        BY <1>3, <2>1, <2>3, <2>4, <2>5, <3>2
      <4>2. b[j - (i - 1)] = q[j + 1]
        <5>1. PICK k \in 1 .. Len(q) - i : k = j - (i - 1)
          BY <4>1
        <5>2. i + k = j + 1
          BY <1>3, <2>3, <5>1
        <5> QED BY <2>2, <5>1, <5>2
      <4> QED BY <3>2, <4>1, <4>2
    <3> QED BY <3>1, <3>2
  <2> QED BY <2>4, <2>5, <2>6
<1> HIDE DEF q, s
<1>6. lQueue'[l] = s /\ \A k \in Lane!Lane : k # l => lQueue'[k] = lQueue[k]
  BY <1>1, <1>2, <1>4
<1>7. lQueue' \in [Lane!Lane -> Seq(Lane!Request)]
  BY <1>1, <1>2, <1>4, <1>5
<1>8. QueueOf(r) = q /\ QueueOf(r)' = s
  BY <1>6 DEF QueueOf, q
<1> QED BY <1>3, <1>5, <1>6, <1>7, <1>8 DEF LeavesQueue

\* The promises start from within a turn of now.
LEMMA FromIs ==
    ASSUME LaneTypes, Queues, Sleeps
    PROVE  From \in Int /\ From <= clock /\ clock <= From + Turn
<1>1. clock \in Nat /\ Turn \in Nat
  BY Prices DEF LaneTypes
<1>2. CASE Len(Orders) > 0 /\ Asleep(Orders[1])
  <2>1. Orders \in Seq(Lane!Request) /\ Orders = lQueue["order"] /\ "order" \in Lane!Lane
    BY Lanes DEF LaneTypes, Orders
  <2>2. 1 \in 1 .. Len(Orders) /\ Orders[1] \in Lane!Request
    BY <1>2, <2>1
  <2>3. Lane!LaneOf(Orders[1]) = "order"
    BY <2>1, <2>2 DEF Queues
  <2>4. PICK w \in Nat : w = wake[Orders[1]] /\ clock <= w /\ w <= clock + Turn
    BY <1>2, <2>2, <2>3, Lanes DEF Sleeps, LaneTypes
  <2>5. From = w - Turn
    BY <1>2, <2>4 DEF From
  <2> QED BY <1>1, <2>4, <2>5
<1>3. CASE ~(Len(Orders) > 0 /\ Asleep(Orders[1]))
  <2>1. From = clock
    BY <1>3 DEF From
  <2> QED BY <1>1, <2>1
<1> QED BY <1>2, <1>3

\* Who leaves its queue leaves the others queued once, and their promises.
LEMMA QueuesLeft ==
    ASSUME LaneTypes, Queues, Sleeps, NEW CONSTANT r \in Lane!Request, NEW CONSTANT i,
           LeavesQueue(r, i), ~Waiting(r)',
           \A x \in Lane!Request : x # r => phase'[x] = phase[x]
    PROVE  Queues'
<1> DEFINE l == Lane!LaneOf(r)
           q == lQueue[l]
           p == lQueue'[l]
           At(j) == IF j < i THEN j ELSE j + 1
<1>1. l \in Lane!Lane /\ q \in Seq(Lane!Request) /\ p \in Seq(Lane!Request) /\ QueueOf(r) = q /\ QueueOf(r)' = p
  BY Lanes DEF LaneTypes, LeavesQueue, QueueOf
<1>2. /\ i \in 1 .. Len(q) /\ q[i] = r /\ Len(p) = Len(q) - 1 /\ Len(q) \in Nat
      /\ \A j \in 1 .. Len(p) : p[j] = q[At(j)] /\ At(j) \in 1 .. Len(q) /\ At(j) # i
  <2>1. i \in 1 .. Len(q) /\ q[i] = r /\ Len(p) = Len(q) - 1 /\ Len(q) \in Nat
    BY <1>1 DEF LeavesQueue
  <2>2. \A j \in 1 .. Len(p) : p[j] = q[At(j)]
    BY <1>1 DEF LeavesQueue
  <2> HIDE DEF q, p
  <2>3. \A j \in 1 .. Len(p) : At(j) \in 1 .. Len(q) /\ At(j) # i
    BY <2>1
  <2> QED BY <2>1, <2>2, <2>3
<1>3. \A m \in Lane!Lane : m # l => lQueue'[m] = lQueue[m]
  BY DEF LeavesQueue
<1>4. /\ \A k \in 1 .. Len(q) : Lane!LaneOf(q[k]) = l /\ Waiting(q[k]) /\ (Asleep(q[k]) => k = 1)
      /\ \A k, j \in 1 .. Len(q) : q[k] = q[j] => k = j
  BY <1>1 DEF Queues, Waiting
<1> HIDE DEF q, p
<1>5. \A j, k \in 1 .. Len(p) : At(j) = At(k) => j = k
  BY <1>2
<1>6. ASSUME NEW m \in Lane!Lane, NEW j \in 1 .. Len(lQueue'[m])
      PROVE  /\ Lane!LaneOf(lQueue'[m][j]) = m /\ phase'[lQueue'[m][j]] \in {"queued", "asleep"}
             /\ phase'[lQueue'[m][j]] = "asleep" => j = 1
             /\ \A k \in 1 .. Len(lQueue'[m]) : lQueue'[m][j] = lQueue'[m][k] => j = k
  <2>1. CASE m # l
    <3>1. lQueue'[m] = lQueue[m] /\ j \in 1 .. Len(lQueue[m])
      BY <1>3, <2>1
    <3>2. /\ Lane!LaneOf(lQueue[m][j]) = m /\ phase[lQueue[m][j]] \in {"queued", "asleep"}
          /\ Asleep(lQueue[m][j]) => j = 1
          /\ \A k \in 1 .. Len(lQueue[m]) : lQueue[m][j] = lQueue[m][k] => j = k
      BY <3>1 DEF Queues
    <3>3. lQueue[m][j] \in Lane!Request /\ lQueue[m][j] # r
      <4>1. lQueue[m] \in Seq(Lane!Request)
        BY DEF LaneTypes
      <4> QED BY <2>1, <3>1, <3>2, <4>1
    <3>4. phase'[lQueue[m][j]] = phase[lQueue[m][j]]
      BY <3>3
    <3> QED BY <3>1, <3>2, <3>4 DEF Asleep
  <2>2. CASE m = l
    <3>1. lQueue'[m] = p /\ j \in 1 .. Len(p)
      BY <2>2 DEF p
    <3>2. p[j] = q[At(j)] /\ At(j) \in 1 .. Len(q) /\ At(j) # i
      BY <1>2, <3>1
    <3>3. q[At(j)] \in Lane!Request /\ q[At(j)] # r
      BY <1>1, <1>2, <1>4, <3>2
    <3>4. phase'[p[j]] = phase[p[j]]
      BY <3>2, <3>3
    <3>5. Lane!LaneOf(p[j]) = m /\ Waiting(p[j]) /\ (Asleep(p[j]) => At(j) = 1)
      BY <1>4, <2>2, <3>2
    <3>6. At(j) = 1 => j = 1
      BY <3>1
    <3>7. ASSUME NEW k \in 1 .. Len(p), p[j] = p[k] PROVE j = k
      <4>1. p[k] = q[At(k)] /\ At(k) \in 1 .. Len(q)
        BY <1>2
      <4>2. At(j) = At(k)
        BY <1>4, <3>2, <3>7, <4>1
      <4> QED BY <1>5, <3>1, <4>2
    <3> HIDE DEF At
    <3> QED BY <3>1, <3>4, <3>5, <3>6, <3>7 DEF Asleep, Waiting
  <2> QED BY <2>1, <2>2
<1>7. ASSUME NEW x \in Lane!Request, phase'[x] \in {"queued", "asleep"}
      PROVE  \E j \in 1 .. Len(lQueue'[Lane!LaneOf(x)]) : lQueue'[Lane!LaneOf(x)][j] = x
  <2>1. x # r
    BY <1>7 DEF Waiting
  <2>2. phase[x] \in {"queued", "asleep"}
    BY <1>7, <2>1
  <2>3. PICK k \in 1 .. Len(lQueue[Lane!LaneOf(x)]) : lQueue[Lane!LaneOf(x)][k] = x
    BY <2>2 DEF Queues
  <2>4. CASE Lane!LaneOf(x) # l
    BY <1>3, <2>3, <2>4, Lanes
  <2>5. CASE Lane!LaneOf(x) = l
    <3>1. k \in 1 .. Len(q) /\ q[k] = x /\ k # i
      BY <1>2, <2>1, <2>3, <2>5 DEF q
    <3>2. PICK j \in 1 .. Len(p) : At(j) = k
      <4>1. CASE k < i
        <5>1. k \in 1 .. Len(p) /\ At(k) = k
          BY <1>2, <3>1, <4>1
        <5> QED BY <5>1
      <4>2. CASE ~(k < i)
        <5>1. k - 1 \in 1 .. Len(p) /\ At(k - 1) = k
          BY <1>2, <3>1, <4>2
        <5> QED BY <5>1
      <4> QED BY <4>1, <4>2
    <3>3. p[j] = x
      BY <1>2, <3>1, <3>2
    <3> QED BY <2>5, <3>3 DEF p
  <2> QED BY <2>4, <2>5
<1> QED BY <1>6, <1>7 DEF Queues, Asleep

\* The promises are kept to who is left.
LEMMA DuesLeft ==
    ASSUME LaneTypes, Queues, Sleeps, Dues, NEW CONSTANT r \in Lane!Request, NEW CONSTANT i,
           LeavesQueue(r, i), UNCHANGED <<clock, due>>,
           \A x \in Lane!Request : x # r => phase'[x] = phase[x] /\ wake'[x] = wake[x]
    PROVE  Dues'
<1>1. /\ Orders \in Seq(Lane!Request) /\ Orders' \in Seq(Lane!Request)
      /\ Orders = lQueue["order"] /\ Orders' = lQueue'["order"] /\ "order" \in Lane!Lane
  BY Lanes DEF LaneTypes, LeavesQueue, Orders
<1>2. \A k \in 1 .. Len(Orders) : /\ Orders[k] \in Urgent /\ Orders[k] \in Lane!Request
                                  /\ (Asleep(Orders[k]) => k = 1)
                                  /\ \A j \in 1 .. Len(Orders) : Orders[k] = Orders[j] => k = j
  BY <1>1, Lanes DEF Queues
<1>3. From \in Int /\ From <= clock /\ clock <= From + Turn /\ clock \in Nat
  BY FromIs DEF LaneTypes
<1>4. ASSUME Lane!LaneOf(r) # "order" PROVE Dues'
  <2>1. Orders' = Orders
    BY <1>1, <1>4 DEF LeavesQueue
  <2>2. \A k \in 1 .. Len(Orders) : Orders[k] # r
    BY <1>2, <1>4, Lanes
  <2>3. Len(Orders) > 0 => 1 \in 1 .. Len(Orders)
    BY <1>1
  <2>4. From' = From
    BY <1>2, <2>1, <2>2, <2>3 DEF From, Asleep
  <2> QED BY <2>1, <2>4 DEF Dues
<1>5. ASSUME Lane!LaneOf(r) = "order" PROVE Dues'
  <2>1. /\ i \in 1 .. Len(Orders) /\ Orders[i] = r /\ Len(Orders') = Len(Orders) - 1 /\ Len(Orders) \in Nat
        /\ \A j \in 1 .. Len(Orders') : Orders'[j] = Orders[IF j < i THEN j ELSE j + 1]
    <3>1. QueueOf(r) = Orders /\ QueueOf(r)' = Orders'
      BY <1>1, <1>5 DEF QueueOf
    <3>2. Len(Orders) \in Nat
      BY <1>1
    <3> QED BY <3>1, <3>2 DEF LeavesQueue
  <2>2. ASSUME i # 1, Len(Orders') > 0 PROVE From' = From
    <3>1. Orders'[1] = Orders[1] /\ 1 \in 1 .. Len(Orders) /\ Len(Orders) > 0
      BY <2>1, <2>2
    <3>2. Orders[1] # r /\ Orders[1] \in Lane!Request
      BY <1>2, <2>1, <2>2, <3>1
    <3> QED BY <2>2, <3>1, <3>2 DEF From, Asleep
  <2>3. ASSUME i = 1, Len(Orders') > 0 PROVE From' = clock
    <3>1. Orders'[1] = Orders[2] /\ 2 \in 1 .. Len(Orders) /\ 1 \in 1 .. Len(Orders)
      BY <2>1, <2>3
    <3>2. Orders[2] # r /\ Orders[2] \in Lane!Request /\ ~Asleep(Orders[2])
      BY <1>2, <2>1, <2>3, <3>1
    <3>3. phase'[Orders'[1]] # "asleep"
      BY <3>1, <3>2 DEF Asleep
    <3> QED BY <3>3 DEF From, Asleep
  <2>4. ASSUME NEW j \in 1 .. Len(Orders') PROVE due'[Orders'[j]] >= From' + Turns(j)
    <3>1. j \in Nat /\ j + 1 \in Nat /\ Len(Orders') > 0
      BY <2>1
    <3>2. PICK a \in Nat, t \in Nat : a = Turns(j) /\ t = Turn /\ Turns(j + 1) = a + t
      BY <3>1, Prices
    <3>3. CASE j < i
      <4>1. Orders'[j] = Orders[j] /\ j \in 1 .. Len(Orders)
        BY <2>1, <3>3
      <4>2. due[Orders[j]] >= From + Turns(j)
        BY <4>1 DEF Dues
      <4>3. i # 1
        BY <3>3, <2>1
      <4>4. From' = From
        BY <2>2, <3>1, <4>3
      <4> QED BY <4>1, <4>2, <4>4
    <3>4. CASE ~(j < i)
      <4>1. Orders'[j] = Orders[j + 1] /\ j + 1 \in 1 .. Len(Orders)
        BY <2>1, <3>4
      <4>2. PICK d \in Nat : d = due[Orders[j + 1]] /\ d >= From + Turns(j + 1)
        <5>1. due[Orders[j + 1]] \in Nat
          BY <1>2, <4>1 DEF LaneTypes
        <5>2. due[Orders[j + 1]] >= From + Turns(j + 1)
          BY <4>1 DEF Dues
        <5> QED BY <5>1, <5>2
      <4>3. From' \in Int /\ From' <= From + t
        BY <1>3, <2>2, <2>3, <3>1, <3>2
      <4>4. d >= From' + Turns(j)
        <5>1. PICK f \in Int, g \in Int : f = From /\ g = From' /\ g <= f + t
          BY <1>3, <4>3
        <5>2. d >= f + (a + t)
          BY <3>2, <4>2, <5>1
        <5>3. d >= g + a
          BY <5>1, <5>2
        <5> QED BY <3>2, <5>1, <5>3
      <4> QED BY <4>1, <4>2, <4>4
    <3> QED BY <3>3, <3>4
  <2> QED BY <2>4 DEF Dues
<1> QED BY <1>4, <1>5

\* Who sleeps, or has its lane's lock, is the first.
LEMMA FirstIs ==
    ASSUME LaneTypes, Queues, NEW CONSTANT r \in Lane!Request, Asleep(r) \/ Lane!Holder(r)
    PROVE  Len(QueueOf(r)) > 0 /\ QueueOf(r)[1] = r /\ 1 \in 1 .. Len(QueueOf(r)) /\ Lane!Holder(r)
<1>1. QueueOf(r) \in Seq(Lane!Request) /\ Lane!LaneOf(r) \in Lane!Lane /\ QueueOf(r) = lQueue[Lane!LaneOf(r)]
  BY Lanes DEF LaneTypes, QueueOf
<1>2. CASE Asleep(r)
  <2>1. PICK i \in 1 .. Len(QueueOf(r)) : QueueOf(r)[i] = r
    BY <1>1, <1>2 DEF Queues, Asleep
  <2>2. i = 1
    BY <1>1, <1>2, <2>1 DEF Queues
  <2> QED BY <1>1, <2>1, <2>2 DEF Lane!Holder
<1>3. CASE Lane!Holder(r)
  <2>1. QueueOf(r) # <<>> /\ r = Head(QueueOf(r))
    BY <1>1, <1>3 DEF Lane!Holder
  <2> QED BY <1>1, <1>3, <2>1
<1> QED BY <1>2, <1>3

\* Where no queue changes, who waits goes on waiting, and only a first falls asleep.
LEMMA QueuesKept ==
    ASSUME LaneTypes, Queues, lQueue' = lQueue,
           \A x \in Lane!Request : (phase'[x] \in {"queued", "asleep"}) <=> (phase[x] \in {"queued", "asleep"}),
           \A x \in Lane!Request : phase'[x] = "asleep" =>
             Asleep(x) \/ (Len(QueueOf(x)) > 0 /\ QueueOf(x)[1] = x)
    PROVE  Queues'
<1>1. ASSUME NEW l \in Lane!Lane, NEW i \in 1 .. Len(lQueue[l])
      PROVE  /\ Lane!LaneOf(lQueue[l][i]) = l /\ phase'[lQueue[l][i]] \in {"queued", "asleep"}
             /\ phase'[lQueue[l][i]] = "asleep" => i = 1
             /\ \A j \in 1 .. Len(lQueue[l]) : lQueue[l][i] = lQueue[l][j] => i = j
  <2>1. /\ Lane!LaneOf(lQueue[l][i]) = l /\ phase[lQueue[l][i]] \in {"queued", "asleep"}
        /\ Asleep(lQueue[l][i]) => i = 1
        /\ \A j \in 1 .. Len(lQueue[l]) : lQueue[l][i] = lQueue[l][j] => i = j
    BY DEF Queues
  <2>2. lQueue[l][i] \in Lane!Request /\ lQueue[l] \in Seq(Lane!Request)
    BY DEF LaneTypes
  <2>3. PICK x \in Lane!Request : x = lQueue[l][i]
    BY <2>2
  <2>4. QueueOf(x) = lQueue[l]
    BY <2>1, <2>3 DEF QueueOf
  <2>5. phase'[x] = "asleep" => i = 1
    <3>1. Len(lQueue[l]) > 0 /\ lQueue[l][1] = x => i = 1
      BY <2>1, <2>2, <2>3
    <3> QED BY <2>1, <2>3, <2>4, <3>1
  <2>6. phase'[x] \in {"queued", "asleep"}
    BY <2>1, <2>3
  <2> QED BY <2>1, <2>3, <2>5, <2>6
<1>2. ASSUME NEW x \in Lane!Request, phase'[x] \in {"queued", "asleep"}
      PROVE  \E i \in 1 .. Len(lQueue[Lane!LaneOf(x)]) : lQueue[Lane!LaneOf(x)][i] = x
  BY <1>2 DEF Queues
<1> QED BY <1>1, <1>2 DEF Queues, Asleep

\* Promises to a queue that does not change are kept where they start no later.
LEMMA DuesKept ==
    ASSUME LaneTypes, Queues, Sleeps, Dues, lQueue' = lQueue, due' = due,
           Len(Orders) > 0 => From' \in Int /\ From' <= From
    PROVE  Dues'
<1>1. Orders' = Orders /\ Len(Orders) \in Nat /\ Orders \in Seq(Lane!Request)
  BY Lanes DEF Orders, LaneTypes
<1>2. From \in Int
  BY FromIs
<1>3. ASSUME NEW i \in 1 .. Len(Orders) PROVE due[Orders[i]] >= From' + Turns(i)
  <2>1. Orders[i] \in Urgent
    BY <1>1, Lanes DEF Queues, Orders
  <2>2. due[Orders[i]] \in Nat /\ due[Orders[i]] >= From + Turns(i)
    BY <2>1 DEF LaneTypes, Dues
  <2>3. From' \in Int /\ From' <= From /\ i \in Nat
    BY <1>1
  <2>4. Turns(i) \in Nat
    BY <2>3, Prices
  <2> QED BY <1>2, <2>2, <2>3, <2>4
<1> QED BY <1>1, <1>3 DEF Dues

\* Sleeps go on where nobody falls asleep and no request leaves for the broker.
LEMMA SleepsKept ==
    ASSUME LaneTypes, Sleeps, UNCHANGED <<clock, penalty, leaks>>,
           \A x \in Lane!Request : phase'[x] = "asleep" => Asleep(x) /\ wake'[x] = wake[x]
    PROVE  Sleeps'
BY DEF Sleeps, Asleep

\* Asking: the end of the queue, and a turn after the last.
LEMMA Asked ==
    ASSUME LaneTypes, Queues, Sleeps, Dues, NEW CONSTANT r \in Lane!Request, Lane!Ask(r)
    PROVE  Queues' /\ Dues' /\ lQueue' \in [Lane!Lane -> Seq(Lane!Request)] /\ due' \in [Urgent -> Nat]
<1> DEFINE l == Lane!LaneOf(r)
           q == lQueue[l]
           p == lQueue'[l]
<1>1. /\ l \in Lane!Lane /\ q \in Seq(Lane!Request) /\ lQueue \in [Lane!Lane -> Seq(Lane!Request)]
      /\ p = Append(q, r) /\ lQueue' \in [Lane!Lane -> Seq(Lane!Request)]
      /\ \A m \in Lane!Lane : m # l => lQueue'[m] = lQueue[m]
  BY Lanes DEF LaneTypes, Lane!Ask
<1>2. /\ phase[r] = "idle" /\ phase'[r] = "queued" /\ \A x \in Lane!Request : x # r => phase'[x] = phase[x]
  BY DEF LaneTypes, Lane!Ask
<1>3. p \in Seq(Lane!Request) /\ Len(p) = Len(q) + 1 /\ Len(q) \in Nat /\ p[Len(q) + 1] = r
      /\ \A i \in 1 .. Len(q) : p[i] = q[i]
  <2> HIDE DEF q, p
  <2> QED BY <1>1
<1>4. ASSUME NEW m \in Lane!Lane, NEW i \in 1 .. Len(lQueue[m])
      PROVE  lQueue[m][i] # r /\ lQueue[m][i] \in Lane!Request
  <2>1. lQueue[m] \in Seq(Lane!Request)
    BY DEF LaneTypes
  <2>2. lQueue[m][i] \in Lane!Request
    BY <2>1
  <2>3. phase[lQueue[m][i]] \in {"queued", "asleep"}
    BY DEF Queues
  <2> QED BY <1>2, <2>2, <2>3
<1>5. Queues'
  <2>1. ASSUME NEW m \in Lane!Lane, NEW i \in 1 .. Len(lQueue'[m])
        PROVE  /\ Lane!LaneOf(lQueue'[m][i]) = m /\ phase'[lQueue'[m][i]] \in {"queued", "asleep"}
               /\ phase'[lQueue'[m][i]] = "asleep" => i = 1
               /\ \A j \in 1 .. Len(lQueue'[m]) : lQueue'[m][i] = lQueue'[m][j] => i = j
    <3>1. CASE m # l
      <4>1. lQueue'[m] = lQueue[m] /\ i \in 1 .. Len(lQueue[m])
        BY <1>1, <3>1
      <4>2. phase'[lQueue[m][i]] = phase[lQueue[m][i]]
        BY <1>2, <1>4, <4>1
      <4> QED BY <4>1, <4>2 DEF Queues, Asleep
    <3>2. CASE m = l /\ i # Len(q) + 1
      <4>1. i \in 1 .. Len(q) /\ lQueue'[m] = p /\ p[i] = q[i] /\ i \in 1 .. Len(lQueue[l])
        BY <1>3, <3>2 DEF p
      <4>2. /\ Lane!LaneOf(q[i]) = l /\ phase[q[i]] \in {"queued", "asleep"}
            /\ phase[q[i]] = "asleep" => i = 1
            /\ \A j \in 1 .. Len(q) : q[i] = q[j] => i = j
        BY <1>1, <4>1 DEF Queues, Asleep
      <4>3. q[i] # r /\ q[i] \in Lane!Request /\ phase'[q[i]] = phase[q[i]]
        BY <1>1, <1>2, <1>4, <4>1
      <4> HIDE DEF q, p
      <4>4. \A j \in 1 .. Len(p) : p[i] = p[j] => i = j
        <5>1. ASSUME NEW j \in 1 .. Len(p), p[i] = p[j] PROVE i = j
          <6>1. j # Len(q) + 1
            BY <1>3, <4>1, <4>3, <5>1
          <6>2. j \in 1 .. Len(q) /\ p[j] = q[j]
            BY <1>3, <6>1
          <6> QED BY <4>1, <4>2, <5>1, <6>2
        <5> QED BY <5>1
      <4> QED BY <3>2, <4>1, <4>2, <4>3, <4>4
    <3>3. CASE m = l /\ i = Len(q) + 1
      <4>1. lQueue'[m] = p /\ p[i] = r
        BY <1>3, <3>3 DEF p
      <4>2. \A j \in 1 .. Len(p) : p[j] = r => j = i
        <5>1. \A j \in 1 .. Len(q) : q[j] # r
          BY <1>1, <1>4
        <5> HIDE DEF q, p
        <5>2. \A j \in 1 .. Len(p) : j # i => j \in 1 .. Len(q)
          BY <1>3, <3>3
        <5> QED BY <1>3, <5>1, <5>2
      <4> HIDE DEF p, q
      <4> QED BY <1>2, <3>3, <4>1, <4>2
    <3> QED BY <3>1, <3>2, <3>3
  <2>2. ASSUME NEW x \in Lane!Request, phase'[x] \in {"queued", "asleep"}
        PROVE  \E i \in 1 .. Len(lQueue'[Lane!LaneOf(x)]) : lQueue'[Lane!LaneOf(x)][i] = x
    <3>1. CASE x = r
      <4>1. Len(q) + 1 \in 1 .. Len(p)
        BY <1>3
      <4> QED BY <1>3, <3>1, <4>1
    <3>2. CASE x # r
      <4>1. PICK i \in 1 .. Len(lQueue[Lane!LaneOf(x)]) : lQueue[Lane!LaneOf(x)][i] = x
        BY <1>2, <2>2, <3>2 DEF Queues
      <4>2. CASE Lane!LaneOf(x) # l
        BY <1>1, <4>1, <4>2, Lanes
      <4>3. CASE Lane!LaneOf(x) = l
        <5>1. i \in 1 .. Len(p) /\ p[i] = x
          BY <1>3, <4>1, <4>3
        <5> QED BY <4>3, <5>1
      <4> QED BY <4>2, <4>3
    <3> QED BY <3>1, <3>2
  <2> QED BY <2>1, <2>2 DEF Queues, Asleep
<1>6. From \in Int /\ From <= clock /\ clock <= From + Turn /\ clock \in Nat
  BY FromIs DEF LaneTypes
<1>7. ASSUME Len(Orders) > 0 PROVE From' = From /\ Len(Orders') > 0
  <2>1. Orders'[1] = Orders[1] /\ 1 \in 1 .. Len(Orders) /\ Len(Orders') > 0
    <3>1. Len(Orders) \in Nat /\ 1 \in 1 .. Len(Orders) /\ "order" \in Lane!Lane
      BY <1>1, <1>7, Lanes DEF Orders, LaneTypes
    <3>2. CASE l = "order"
      BY <1>3, <3>1, <3>2 DEF Orders
    <3>3. CASE l # "order"
      <4>1. Orders' = Orders
        BY <1>1, <3>1, <3>3 DEF Orders
      <4> QED BY <1>7, <3>1, <4>1
    <3> QED BY <3>2, <3>3
  <2>2. Orders[1] # r /\ Orders[1] \in Lane!Request
    BY <1>4, <2>1, Lanes DEF Orders
  <2>3. phase'[Orders'[1]] = phase[Orders[1]] /\ wake'[Orders'[1]] = wake[Orders[1]] /\ clock' = clock
    BY <1>2, <2>1, <2>2 DEF Lane!Ask
  <2> QED BY <1>7, <2>1, <2>3 DEF From, Asleep
<1>8. CASE r \notin Urgent
  <2>1. l = "poll" /\ due' = due /\ Orders' = Orders
    BY <1>1, <1>8, Lanes DEF Lane!Ask, Orders
  <2>2. Dues'
    BY <1>7, <2>1 DEF Dues
  <2> QED BY <1>1, <1>5, <2>1, <2>2 DEF LaneTypes
<1>9. CASE r \in Urgent
  <2>1. l = "order" /\ q = Orders /\ p = Orders'
    BY <1>9, Lanes DEF Orders
  <2>2. due' = [due EXCEPT ![r] = clock + (Len(Orders) + 1) * Turn]
    BY <1>9 DEF Lane!Ask, Turn, Orders
  <2>3. Len(Orders) + 1 \in Nat /\ Turns(Len(Orders) + 1) = (Len(Orders) + 1) * Turn
        /\ Turns(Len(Orders) + 1) \in Nat
    <3>1. Len(Orders) + 1 \in Nat
      BY <1>3, <2>1
    <3> QED BY <3>1, Prices DEF Turns
  <2>4. due' \in [Urgent -> Nat] /\ due'[r] = clock + Turns(Len(Orders) + 1)
        /\ \A x \in Urgent : x # r => due'[x] = due[x]
    BY <1>6, <1>9, <2>2, <2>3 DEF LaneTypes
  <2>5. ASSUME NEW i \in 1 .. Len(Orders') PROVE due'[Orders'[i]] >= From' + Turns(i)
    <3>1. CASE i # Len(Orders) + 1
      <4>1. i \in 1 .. Len(Orders) /\ Orders'[i] = Orders[i] /\ Len(Orders) > 0
        BY <1>3, <2>1, <3>1
      <4>2. Orders[i] # r /\ Orders[i] \in Urgent
        BY <1>4, <2>1, <4>1, Lanes DEF Queues, Orders
      <4>3. due[Orders[i]] >= From + Turns(i)
        BY <4>1 DEF Dues
      <4> QED BY <1>7, <2>4, <4>1, <4>2, <4>3
    <3>2. CASE i = Len(Orders) + 1
      <4>1. Orders'[i] = r
        BY <1>3, <2>1, <3>2
      <4>2. From' \in Int /\ From' <= clock
        <5>1. CASE Len(Orders) > 0
          BY <1>6, <1>7, <5>1
        <5>2. CASE ~(Len(Orders) > 0)
          <6>1. Orders'[1] = r
            BY <1>3, <2>1, <5>2
          <6>2. From' = clock'
            BY <1>2, <6>1 DEF From, Asleep
          <6>3. clock' = clock
            BY DEF Lane!Ask
          <6> QED BY <1>6, <6>2, <6>3
        <5> QED BY <5>1, <5>2
      <4> QED BY <1>6, <2>3, <2>4, <3>2, <4>1, <4>2
    <3> QED BY <3>1, <3>2
  <2> QED BY <1>1, <1>5, <2>4, <2>5 DEF Dues
<1> QED BY <1>8, <1>9

(***************************************************************************)
(* What a request's move does to its lane.                                 *)
(***************************************************************************)
\* A request leaves its queue without being sent: cancelled, or refused in a penalty.
LEMMA GivesUp ==
    ASSUME LaneInv, NEW CONSTANT r \in Lane!Request, NEW CONSTANT i, LeavesQueue(r, i),
           phase' = [phase EXCEPT ![r] = "over"],
           UNCHANGED <<clock, penalty, credit, lastUrgent, lastPoll, wake, due, gone, leaks>>
    PROVE  LaneInv'
<1>1. LaneTypes /\ Queues /\ Sleeps /\ Dues
  BY DEF LaneInv
<1>2. phase'[r] = "over" /\ \A x \in Lane!Request : x # r => phase'[x] = phase[x]
  BY <1>1 DEF LaneTypes
<1>3. LaneTypes'
  <2>1. phase' \in [Lane!Request -> {"idle", "queued", "asleep", "sent", "over"}]
    BY <1>1 DEF LaneTypes
  <2>2. lQueue' \in [Lane!Lane -> Seq(Lane!Request)]
    BY DEF LeavesQueue
  <2> QED BY <1>1, <2>1, <2>2 DEF LaneTypes
<1>4. Queues'
  <2>1. ~Waiting(r)'
    BY <1>2 DEF Waiting
  <2> QED BY <1>1, <1>2, <2>1, QueuesLeft
<1>5. Dues'
  BY <1>1, <1>2, DuesLeft
<1>6. Sleeps'
  BY <1>1, <1>2, SleepsKept DEF Asleep
<1>7. Paced'
  BY <1>2, Lanes, PacedStays DEF Asleep
<1> QED BY <1>3, <1>4, <1>5, <1>6, <1>7 DEF LaneInv

\* The holder of the lock leaves for the broker, at most once per lane in a penalty.
LEMMA Leaves ==
    ASSUME LaneTypes, Queues, Sleeps, Dues, NEW CONSTANT r \in Lane!Request,
           Lane!Holder(r), Lane!Leave(r), clock < penalty => leaks[Lane!LaneOf(r)] = 0,
           UNCHANGED <<clock, penalty, due>>
    PROVE  /\ Queues' /\ Sleeps' /\ Dues'
           /\ lQueue' \in [Lane!Lane -> Seq(Lane!Request)] /\ wake' \in [Lane!Request -> Nat]
           /\ phase' \in [Lane!Request -> {"idle", "queued", "asleep", "sent", "over"}]
           /\ gone' \in [Lane!Request -> 0 .. clock] /\ leaks' \in [Lane!Lane -> {0, 1}]
           /\ phase'[r] = "sent" /\ gone'[r] = clock
           /\ \A x \in Lane!Request : x # r =>
                phase'[x] = phase[x] /\ wake'[x] = wake[x] /\ gone'[x] = gone[x]
           /\ \A x \in Lane!Request : phase'[x] = "asleep" => Lane!LaneOf(x) # Lane!LaneOf(r)
<1>1. LeavesQueue(r, 1)
  BY TailLeaves DEF Lane!Leave
<1>2. /\ phase'[r] = "sent" /\ gone'[r] = clock
      /\ \A x \in Lane!Request : x # r =>
                phase'[x] = phase[x] /\ wake'[x] = wake[x] /\ gone'[x] = gone[x]
  BY DEF LaneTypes, Lane!Leave
<1>3. /\ lQueue' \in [Lane!Lane -> Seq(Lane!Request)] /\ wake' \in [Lane!Request -> Nat]
      /\ phase' \in [Lane!Request -> {"idle", "queued", "asleep", "sent", "over"}]
  BY <1>1 DEF LaneTypes, Lane!Leave, LeavesQueue
<1>4. gone' \in [Lane!Request -> 0 .. clock]
  <2>1. clock \in 0 .. clock
    BY DEF LaneTypes
  <2> QED BY <2>1 DEF LaneTypes, Lane!Leave
<1>5. Lane!LaneOf(r) \in Lane!Lane
  BY Lanes
<1>6. /\ leaks' \in [Lane!Lane -> {0, 1}]
      /\ \A l \in Lane!Lane : l # Lane!LaneOf(r) => leaks'[l] = leaks[l]
  <2>1. CASE clock < penalty
    <3>1. leaks[Lane!LaneOf(r)] + 1 = 1
      BY <2>1
    <3>2. leaks' = [leaks EXCEPT ![Lane!LaneOf(r)] = 1]
      BY <2>1, <3>1 DEF Lane!Leave
    <3> QED BY <1>5, <3>2 DEF LaneTypes
  <2>2. CASE ~(clock < penalty)
    <3>1. leaks' = [leaks EXCEPT ![Lane!LaneOf(r)] = @]
      BY <2>2 DEF Lane!Leave
    <3> QED BY <1>5, <3>1 DEF LaneTypes
  <2> QED BY <2>1, <2>2
<1>7. ASSUME NEW x \in Lane!Request, phase'[x] = "asleep"
      PROVE  Lane!LaneOf(x) # Lane!LaneOf(r) /\ x # r
  <2>1. x # r
    BY <1>2, <1>7
  <2>2. Asleep(x)
    BY <1>2, <1>7, <2>1 DEF Asleep
  <2>3. QueueOf(x)[1] = x /\ QueueOf(r)[1] = r
    BY <2>2, FirstIs
  <2> QED BY <2>1, <2>3 DEF QueueOf
<1>8. Queues' /\ Dues'
  <2>1. ~Waiting(r)'
    BY <1>2 DEF Waiting
  <2>2. Queues'
    BY <1>1, <1>2, <2>1, QueuesLeft
  <2>3. Dues'
    BY <1>1, <1>2, DuesLeft
  <2> QED BY <2>2, <2>3
<1>9. Sleeps'
  <2>1. ASSUME NEW x \in Lane!Request, phase'[x] = "asleep"
        PROVE  /\ clock <= wake'[x] /\ (x \in Urgent => wake'[x] <= clock + Turn)
               /\ leaks'[Lane!LaneOf(x)] = 1 => wake'[x] >= penalty
    <3>1. x # r /\ Asleep(x) /\ wake'[x] = wake[x]
      BY <1>2, <1>7, <2>1 DEF Asleep
    <3>2. leaks'[Lane!LaneOf(x)] = leaks[Lane!LaneOf(x)]
      BY <1>6, <1>7, <2>1, Lanes
    <3> QED BY <3>1, <3>2 DEF Sleeps
  <2> QED BY <2>1 DEF Sleeps, Asleep
<1> QED BY <1>2, <1>3, <1>4, <1>6, <1>7, <1>8, <1>9

\* The holder of the lock falls asleep, past the penalty, an order for at most a turn.
LEMMA FallsAsleep ==
    ASSUME LaneTypes, Queues, Sleeps, Dues, NEW CONSTANT r \in Lane!Request, NEW CONSTANT n,
           phase[r] = "queued", Lane!Holder(r), Lane!Sleep(r, n), n \in Nat, penalty <= clock + n,
           r \in Urgent => n <= Turn,
           UNCHANGED <<clock, penalty, due>>
    PROVE  /\ Queues' /\ Sleeps' /\ Dues' /\ wake' \in [Lane!Request -> Nat] /\ lQueue' = lQueue
           /\ phase' \in [Lane!Request -> {"idle", "queued", "asleep", "sent", "over"}]
           /\ wake'[r] = clock + n /\ leaks' = leaks /\ gone' = gone
           /\ \A x \in Lane!Request : x # r => phase'[x] = phase[x] /\ wake'[x] = wake[x]
           /\ \A x \in Lane!Request : phase'[x] = "asleep" => x = r \/ Lane!LaneOf(x) # Lane!LaneOf(r)
           /\ \A x \in Lane!Request : Asleep(x) => Lane!LaneOf(x) # Lane!LaneOf(r)
<1>1. Len(QueueOf(r)) > 0 /\ QueueOf(r)[1] = r
  BY FirstIs
<1>2. clock + n \in Nat /\ clock \in Nat /\ Turn \in Nat
  BY Prices DEF LaneTypes
<1>3. /\ phase'[r] = "asleep" /\ wake'[r] = clock + n /\ lQueue' = lQueue /\ leaks' = leaks /\ gone' = gone
      /\ \A x \in Lane!Request : x # r => phase'[x] = phase[x] /\ wake'[x] = wake[x]
      /\ phase' \in [Lane!Request -> {"idle", "queued", "asleep", "sent", "over"}]
      /\ wake' \in [Lane!Request -> Nat]
  BY <1>2 DEF LaneTypes, Lane!Sleep
<1>4. ASSUME NEW x \in Lane!Request, Asleep(x) PROVE Lane!LaneOf(x) # Lane!LaneOf(r)
  <2>1. x # r
    BY <1>4 DEF Asleep
  <2>2. QueueOf(x)[1] = x
    BY <1>4, FirstIs
  <2> QED BY <1>1, <2>1, <2>2 DEF QueueOf
<1>5. ASSUME NEW x \in Lane!Request, phase'[x] = "asleep"
      PROVE  x = r \/ (Asleep(x) /\ Lane!LaneOf(x) # Lane!LaneOf(r))
  BY <1>3, <1>4, <1>5 DEF Asleep
<1>6. Queues'
  <2>1. \A x \in Lane!Request : (phase'[x] \in {"queued", "asleep"}) <=> (phase[x] \in {"queued", "asleep"})
    BY <1>3
  <2>2. \A x \in Lane!Request : phase'[x] = "asleep" =>
             Asleep(x) \/ (Len(QueueOf(x)) > 0 /\ QueueOf(x)[1] = x)
    BY <1>1, <1>5
  <2> QED BY <1>3, <2>1, <2>2, QueuesKept
<1>7. Sleeps'
  <2>1. ASSUME NEW x \in Lane!Request, phase'[x] = "asleep"
        PROVE  /\ clock <= wake'[x] /\ (x \in Urgent => wake'[x] <= clock + Turn)
               /\ leaks'[Lane!LaneOf(x)] = 1 => wake'[x] >= penalty
    <3>1. CASE x = r
      <4>1. clock <= clock + n /\ (r \in Urgent => clock + n <= clock + Turn) /\ clock + n >= penalty
        BY <1>2 DEF LaneTypes
      <4> QED BY <1>3, <3>1, <4>1
    <3>2. CASE x # r
      <4>1. Asleep(x) /\ wake'[x] = wake[x]
        BY <1>3, <1>5, <2>1, <3>2
      <4> QED BY <1>3, <4>1 DEF Sleeps
    <3> QED BY <3>1, <3>2
  <2> QED BY <2>1 DEF Sleeps, Asleep
<1>8. Dues'
  <2>1. Orders' = Orders
    BY <1>3 DEF Orders
  <2>2. From \in Int /\ From <= clock
    BY FromIs
  <2>3. ASSUME Len(Orders) > 0 PROVE From' \in Int /\ From' <= From
    <3>1. Orders[1] \in Lane!Request /\ Lane!LaneOf(Orders[1]) = "order" /\ 1 \in 1 .. Len(Orders)
      <4>1. Orders \in Seq(Lane!Request) /\ "order" \in Lane!Lane
        BY Lanes DEF Orders, LaneTypes
      <4>2. 1 \in 1 .. Len(Orders)
        BY <2>3, <4>1
      <4> QED BY <4>1, <4>2 DEF Orders, Queues
    <3>2. CASE Orders[1] = r
      <4>1. ~Asleep(Orders[1]) /\ r \in Urgent
        BY <3>1, <3>2, Lanes DEF Asleep
      <4>2. From = clock
        BY <4>1 DEF From
      <4>3. From' = clock + n - Turn
        <5>1. Len(Orders') > 0 /\ phase'[Orders'[1]] = "asleep" /\ wake'[Orders'[1]] = clock + n
          BY <1>3, <2>1, <2>3, <3>2
        <5>2. PICK w \in Nat : w = clock + n
          BY <1>2
        <5>3. Len(Orders') > 0 /\ phase'[Orders'[1]] = "asleep" /\ wake'[Orders'[1]] = w
          BY <5>1, <5>2
        <5>4. From' = w - Turn
          BY <5>3 DEF From, Asleep
        <5> QED BY <1>2, <5>2, <5>4
      <4> QED BY <1>2, <4>1, <4>2, <4>3
    <3>3. CASE Orders[1] # r
      <4>1. From' = From
        BY <1>3, <2>1, <3>1, <3>3 DEF From, Asleep
      <4> QED BY <2>2, <4>1
    <3> QED BY <3>2, <3>3
  <2> QED BY <1>3, <2>3, DuesKept
<1> QED BY <1>3, <1>4, <1>5, <1>6, <1>7, <1>8

(***************************************************************************)
(* What an order's token does to the rate.                                 *)
(***************************************************************************)
\* A token is taken from the refilled bucket, if there is one.
LEMMA Takes ==
    ASSUME LaneTypes, Lane!TakeToken, clock' = clock
    PROVE  /\ credit' \in 0 .. Lane!Full /\ lastUrgent' = clock /\ lastUrgent' \in 0 .. clock
           /\ Lane!Refill' = credit'
           /\ Lane!Refill >= Spacing => credit' = Lane!Refill - Spacing
           /\ Lane!Refill < Spacing => credit' = Lane!Refill
<1>1. PICK f \in Nat, p \in Nat, R \in Nat, c \in Nat :
        f = Lane!Full /\ p = Spacing /\ R = Lane!Refill /\ R <= f /\ c = clock /\ 0 < p /\ p <= f
  <2>1. Lane!Full \in Nat /\ Spacing \in Nat /\ 0 < Spacing /\ Spacing <= Lane!Full
    BY Prices
  <2>2. Lane!Refill \in Nat /\ Lane!Refill <= Lane!Full
    BY <2>1, RefillIs
  <2>3. clock \in Nat
    BY DEF LaneTypes
  <2> QED BY <2>1, <2>2, <2>3
<1>2. credit' = (IF R >= p THEN R - p ELSE R) /\ lastUrgent' = c /\ clock' = c
  BY <1>1 DEF Lane!TakeToken
<1>3. credit' \in 0 .. f /\ credit' \in Nat /\ credit' <= f
  BY <1>1, <1>2
<1>4. Lane!Refill' = credit'
  <2>1. Lane!Refill' = IF Lane!Full < credit' + clock' - lastUrgent' THEN Lane!Full
                       ELSE credit' + clock' - lastUrgent'
    BY DEF Lane!Refill, Lane!Smaller, Lane!Full
  <2>2. credit' + clock' - lastUrgent' = credit'
    BY <1>1, <1>2, <1>3
  <2> QED BY <1>1, <1>3, <2>1, <2>2
<1>5. lastUrgent' \in 0 .. clock
  BY <1>1, <1>2
<1> QED BY <1>1, <1>2, <1>3, <1>4, <1>5

\* The slack is a token or none.
LEMMA Slacks ==
    /\ Slack \in Nat /\ Slack <= Spacing /\ (Spent => Slack = 0) /\ (~Spent => Slack = Spacing)
    /\ Slack' \in Nat /\ Slack' <= Spacing /\ (~Spent' => Slack' = Spacing)
<1>1. Spacing \in Nat
  BY Prices
<1>2. (Spent => Slack = 0) /\ (~Spent => Slack = Spacing)
  BY DEF Slack
<1>3. (Spent' => Slack' = 0) /\ (~Spent' => Slack' = Spacing)
  BY DEF Slack
<1>4. Slack = 0 \/ Slack = Spacing
  BY <1>2
<1>5. Slack' = 0 \/ Slack' = Spacing
  BY <1>3
<1> QED BY <1>1, <1>2, <1>3, <1>4, <1>5

\* A token is given for a sleep: it pays for the slack that the sleeper may be.
LEMMA PacedAsleep ==
    ASSUME LaneInv, Lane!TakeToken, UNCHANGED <<clock, gone>>,
           ~Spent' \/ Lane!Refill >= Spacing, ~Spent
    PROVE  Paced'
<1>1. LaneTypes /\ Paced
  BY DEF LaneInv
<1>2. ASSUME NEW s \in 1 .. clock, NEW t \in 1 .. clock, s <= t
      PROVE  Price(Sent(s, t)') <= Lane!Full + (t - s) + Spacing
  <2>1. Sent(s, t)' = Sent(s, t)
    BY SentStays
  <2> QED BY <1>1, <1>2, <2>1 DEF Paced
<1>3. ASSUME NEW s \in 1 .. clock
      PROVE  Price(Sent(s, clock)') + Lane!Refill' <= Lane!Full + (clock - s) + Slack'
  <2>1. Sent(s, clock)' = Sent(s, clock)
    BY DEF Sent
  <2>2. PICK p \in Nat, R \in Nat, n \in Nat, f \in Nat, d \in Int, k \in Nat :
          /\ p = Price(Sent(s, clock)) /\ R = Lane!Refill /\ n = Spacing /\ f = Lane!Full
          /\ d = clock - s /\ k = Slack'
    <3>1. Price(Sent(s, clock)) \in Nat /\ Lane!Full \in Nat /\ Spacing \in Nat
      BY Prices, SentIs
    <3>2. Lane!Refill \in Nat /\ clock - s \in Int /\ Slack' \in Nat
      BY <1>1, RefillIs, Slacks DEF LaneTypes
    <3> QED BY <3>1, <3>2
  <2>3. p + R <= f + d + n
    <3>1. Slack = n
      BY <2>2, Slacks
    <3>2. Price(Sent(s, clock)) + Lane!Refill <= Lane!Full + (clock - s) + Slack
      BY <1>1 DEF Paced
    <3> QED BY <2>2, <3>1, <3>2
  <2>4. CASE R >= n
    <3>1. Lane!Refill' = R - n
      BY <1>1, <2>2, <2>4, Takes
    <3>2. p + (R - n) <= f + d + k
      BY <2>2, <2>3
    <3> QED BY <2>1, <2>2, <3>1, <3>2
  <2>5. CASE ~(R >= n)
    <3>1. Lane!Refill' = R /\ k = n
      <4>1. Lane!Refill < Spacing /\ ~Spent'
        BY <2>2, <2>5
      <4> QED BY <1>1, <2>2, <4>1, Takes, Slacks
    <3> QED BY <2>1, <2>2, <2>3, <3>1
  <2> QED BY <2>4, <2>5
<1> QED BY <1>2, <1>3 DEF Paced

\* An order leaves with its token, or with the one it gave before its sleep.
LEMMA PacedSent ==
    ASSUME LaneInv, Lane!TakeToken, clock' = clock, NEW CONSTANT r \in Urgent, gone'[r] = clock,
           \A u \in Urgent \ {r} : gone'[u] = gone[u],
           Lane!Refill >= Spacing \/ Spent, ~Spent'
    PROVE  Paced'
<1>1. LaneTypes /\ Paced /\ clock \in Nat
  BY DEF LaneInv, LaneTypes
<1>2. ASSUME NEW s \in 1 .. clock
      PROVE  /\ Price(Sent(s, clock)') + Lane!Refill' <= Lane!Full + (clock - s) + Slack'
             /\ Price(Sent(s, clock)') <= Lane!Full + (clock - s) + Spacing
  <2>1. Sent(s, clock)' \in Nat /\ Sent(s, clock)' <= Sent(s, clock) + 1
    <3>1. PICK c \in Nat : c = clock
      BY <1>1
    <3>2. s \in Nat
      BY <1>1
    <3>3. Sent(s, c)' \in Nat /\ Sent(s, c)' <= Sent(s, c) + 1
      BY <1>1, <3>2, SentLeaves
    <3>4. Sent(s, clock)' = Sent(s, c)' /\ Sent(s, clock) = Sent(s, c)
      BY <3>1 DEF Sent
    <3> QED BY <3>3, <3>4
  <2>2. Sent(s, clock) \in Nat
    BY SentIs
  <2>3. PICK p \in Nat, q \in Nat, R \in Nat, n \in Nat, f \in Nat, d \in Int, k \in Nat :
          /\ p = Price(Sent(s, clock)) /\ q = Price(Sent(s, clock)') /\ R = Lane!Refill
          /\ n = Spacing /\ f = Lane!Full /\ d = clock - s /\ k = Slack /\ k <= n
    <3>1. Price(Sent(s, clock)) \in Nat /\ Price(Sent(s, clock)') \in Nat
      BY <2>1, <2>2, Prices
    <3>2. Lane!Refill \in Nat /\ clock - s \in Int
      BY <1>1, RefillIs
    <3>3. Lane!Full \in Nat /\ Spacing \in Nat
      BY Prices
    <3> QED BY <3>1, <3>2, <3>3, Slacks
  <2>4. q <= p + n
    <3>1. Price(Sent(s, clock)') <= Price(Sent(s, clock) + 1)
      BY <2>1, <2>2, Prices
    <3>2. Price(Sent(s, clock) + 1) = Price(Sent(s, clock)) + Spacing
      BY <2>2, Prices
    <3> QED BY <2>3, <3>1, <3>2
  <2>5. p + R <= f + d + k
    BY <1>1, <2>3 DEF Paced
  <2>6. Slack' = n
    BY <2>3, Slacks
  <2>7. CASE R >= n
    <3>1. Lane!Refill' = R - n
      BY <1>1, <2>3, <2>7, Takes
    <3>2. q + (R - n) <= f + d + n /\ q <= f + d + n
      BY <2>3, <2>4, <2>5, <2>7
    <3> QED BY <2>3, <2>6, <3>1, <3>2
  <2>8. CASE ~(R >= n)
    <3>1. Lane!Refill' = R /\ k = 0
      <4>1. Lane!Refill < Spacing
        BY <2>3, <2>8
      <4>2. Spent
        BY <2>3, <2>8
      <4> QED BY <1>1, <2>3, <4>1, <4>2, Takes, Slacks
    <3>2. q + R <= f + d + n /\ q <= f + d + n
      BY <2>3, <2>4, <2>5, <3>1
    <3> QED BY <2>3, <2>6, <3>1, <3>2
  <2> QED BY <2>7, <2>8
<1>3. ASSUME NEW s \in 1 .. clock, NEW t \in 1 .. clock, s <= t
      PROVE  Price(Sent(s, t)') <= Lane!Full + (t - s) + Spacing
  <2>1. CASE t = clock
    BY <1>2, <2>1 DEF Sent
  <2>2. CASE t # clock
    <3>1. t < clock /\ s \in Nat /\ t \in Nat
      BY <1>1, <2>2
    <3>2. Sent(s, t)' \in Nat /\ Sent(s, t)' <= Sent(s, t)
      BY <1>1, <3>1, SentLeaves
    <3>3. Price(Sent(s, t)') <= Price(Sent(s, t))
      BY <3>2, SentIs, Prices
    <3>4. Price(Sent(s, t)) <= Lane!Full + (t - s) + Spacing
      BY <1>1, <1>3 DEF Paced
    <3>5. PICK p \in Nat, q \in Nat, b \in Int :
            p = Price(Sent(s, t)') /\ q = Price(Sent(s, t)) /\ b = Lane!Full + (t - s) + Spacing
      <4>1. Price(Sent(s, t)') \in Nat /\ Price(Sent(s, t)) \in Nat
        BY <3>2, SentIs, Prices
      <4>2. Lane!Full + (t - s) + Spacing \in Int
        BY <3>1, Prices
      <4> QED BY <4>1, <4>2
    <3> QED BY <3>3, <3>4, <3>5
  <2> QED BY <2>1, <2>2
<1> QED BY <1>2, <1>3 DEF Paced

(***************************************************************************)
(* The steps.                                                              *)
(***************************************************************************)
\* Nothing sent, nothing queued.
LEMMA LaneInit == ASSUME Lane!Init PROVE LaneInv
<1>1. clock = 1 /\ lQueue = [l \in Lane!Lane |-> <<>>] /\ phase = [r \in Lane!Request |-> "idle"]
  BY DEF Lane!Init
<1>2. LaneTypes
  <2>1. Lane!Full \in 0 .. Lane!Full /\ Lane!Full \in Nat
    BY Prices
  <2>2. <<>> \in Seq(Lane!Request)
    OBVIOUS
  <2>3. clock \in 1 .. MaxClock /\ lastPoll \in -PollSpacing .. clock
    BY LaneAssumption DEF Lane!Init
  <2> QED BY <2>1, <2>2, <2>3 DEF Lane!Init, LaneTypes
<1>3. \A l \in Lane!Lane : Len(lQueue[l]) = 0
  BY <1>1
<1>4. Queues /\ Sleeps
  BY <1>1, <1>3 DEF Queues, Sleeps, Asleep
<1>5. Dues
  BY <1>3, Lanes DEF Dues, Orders
<1>6. Paced
  <2>1. ASSUME NEW s \in 1 .. clock, NEW t \in 1 .. clock
        PROVE  s = 1 /\ t = 1 /\ Sent(s, t) = 0
    <3>1. s = 1 /\ t = 1
      BY <1>1
    <3>2. gone = [r \in Lane!Request |-> 0]
      BY DEF Lane!Init
    <3>3. {r \in Urgent : gone[r] \in s .. t} = {}
      BY <3>1, <3>2, Lanes
    <3> QED BY <3>1, <3>3, FS_EmptySet DEF Sent
  <2>2. Price(0) = 0 /\ Lane!Full \in Nat /\ Spacing \in Nat
    BY Prices
  <2>3. Lane!Refill <= Lane!Full /\ Lane!Refill \in Nat
    BY <1>2, <2>2, RefillIs
  <2>4. Slack \in Nat
    BY Slacks
  <2>5. ASSUME NEW s \in 1 .. clock, NEW t \in 1 .. clock
        PROVE Price(Sent(s, t)) <= Lane!Full + (t - s) + Spacing
    BY <2>1, <2>2
  <2>6. ASSUME NEW s \in 1 .. clock
        PROVE Price(Sent(s, clock)) + Lane!Refill <= Lane!Full + (clock - s) + Slack
    <3>1. s = 1 /\ clock = 1 /\ Price(Sent(s, clock)) = 0
      BY <1>1, <2>1, <2>2
    <3>2. clock - s = 0
      BY <3>1
    <3> QED BY <2>2, <2>3, <2>4, <3>1, <3>2
  <2> QED BY <2>5, <2>6 DEF Paced
<1> QED BY <1>2, <1>4, <1>5, <1>6 DEF LaneInv

\* A request is asked for.
LEMMA LaneAsk ==
    ASSUME LaneInv, NEW CONSTANT r \in Lane!Request, Lane!Ask(r)
    PROVE  LaneInv'
<1>1. LaneTypes /\ Queues /\ Sleeps /\ Dues
  BY DEF LaneInv
<1>2. phase'[r] = "queued" /\ \A x \in Lane!Request : x # r => phase'[x] = phase[x]
  BY <1>1 DEF LaneTypes, Lane!Ask
<1>3. Queues' /\ Dues' /\ lQueue' \in [Lane!Lane -> Seq(Lane!Request)] /\ due' \in [Urgent -> Nat]
  BY <1>1, Asked
<1>4. UNCHANGED <<clock, penalty, credit, lastUrgent, lastPoll, wake, gone, leaks>>
  BY DEF Lane!Ask
<1>5. LaneTypes'
  <2>1. phase' \in [Lane!Request -> {"idle", "queued", "asleep", "sent", "over"}]
    BY <1>1 DEF LaneTypes, Lane!Ask
  <2> QED BY <1>1, <1>3, <1>4, <2>1 DEF LaneTypes
<1>6. \A x \in Lane!Request : phase'[x] = "asleep" => Asleep(x) /\ wake'[x] = wake[x]
  BY <1>2, <1>4 DEF Asleep
<1>7. Sleeps'
  BY <1>1, <1>4, <1>6, SleepsKept
<1>8. Paced'
  BY <1>4, <1>6, Lanes, PacedStays DEF Asleep
<1> QED BY <1>3, <1>5, <1>7, <1>8 DEF LaneInv

\* A caller is cancelled.
LEMMA LaneCancel ==
    ASSUME LaneInv, NEW CONSTANT r \in Lane!Request, Lane!Cancel(r)
    PROVE  LaneInv'
<1>1. PICK i \in 1 .. Len(QueueOf(r)) :
        /\ QueueOf(r)[i] = r /\ lQueue' = [lQueue EXCEPT ![Lane!LaneOf(r)] = Lane!RemoveAt(@, i)]
  BY DEF Lane!Cancel, QueueOf
<1>2. LeavesQueue(r, i)
  BY <1>1, RemoveLeaves DEF LaneInv
<1> QED BY <1>2, GivesUp DEF Lane!Cancel

\* What happens to who waits for nobody changes no queue.
LEMMA LaneEnds ==
    ASSUME LaneInv, NEW CONSTANT r \in Lane!Request, phase[r] = "sent",
           phase' = [phase EXCEPT ![r] = "over"],
           UNCHANGED <<clock, credit, lastUrgent, lastPoll, lQueue, wake, due, gone>>,
           \/ UNCHANGED <<penalty, leaks>>
           \/ penalty' \in Nat /\ leaks' = [l \in Lane!Lane |-> 0]
    PROVE  LaneInv'
<1>1. LaneTypes /\ Queues /\ Sleeps /\ Dues
  BY DEF LaneInv
<1>2. phase'[r] = "over" /\ \A x \in Lane!Request : x # r => phase'[x] = phase[x]
  BY <1>1 DEF LaneTypes
<1>3. LaneTypes'
  <2>1. phase' \in [Lane!Request -> {"idle", "queued", "asleep", "sent", "over"}]
    BY <1>1 DEF LaneTypes
  <2>2. penalty' \in Nat /\ leaks' \in [Lane!Lane -> {0, 1}]
    BY <1>1 DEF LaneTypes
  <2> QED BY <1>1, <2>1, <2>2 DEF LaneTypes
<1>4. \A x \in Lane!Request : (phase'[x] = "asleep" <=> Asleep(x))
        /\ ((phase'[x] \in {"queued", "asleep"}) <=> (phase[x] \in {"queued", "asleep"}))
  BY <1>2 DEF Asleep
<1>5. Queues'
  BY <1>1, <1>4, QueuesKept
<1>6. Sleeps'
  <2>1. ASSUME NEW x \in Lane!Request, phase'[x] = "asleep"
        PROVE  /\ clock <= wake[x] /\ (x \in Urgent => wake[x] <= clock + Turn)
               /\ leaks'[Lane!LaneOf(x)] = 1 => wake[x] >= penalty'
    <3>1. Asleep(x) /\ Lane!LaneOf(x) \in Lane!Lane
      BY <1>4, <2>1, Lanes
    <3> QED BY <1>1, <3>1 DEF Sleeps
  <2> QED BY <2>1 DEF Sleeps, Asleep
<1>7. Dues'
  <2>1. ASSUME Len(Orders) > 0 PROVE From' = From
    <3>1. Orders' = Orders /\ Orders[1] \in Lane!Request
      <4>1. Orders \in Seq(Lane!Request)
        BY <1>1, Lanes DEF Orders, LaneTypes
      <4> QED BY <2>1, <4>1 DEF Orders
    <3> QED BY <1>4, <3>1 DEF From, Asleep
  <2>2. From \in Int /\ From <= From
    BY <1>1, FromIs
  <2> QED BY <1>1, <2>1, <2>2, DuesKept
<1>8. Paced'
  BY <1>4, Lanes, PacedStays DEF Asleep
<1> QED BY <1>3, <1>5, <1>6, <1>7, <1>8 DEF LaneInv

\* The broker answers, or limits the rate.
LEMMA LaneAnswered ==
    ASSUME LaneInv, NEW CONSTANT r \in Lane!Request,
           Lane!Answered(r) \/ \E seconds \in Penalty : Lane!Limited(r, seconds)
    PROVE  LaneInv'
<1>1. CASE Lane!Answered(r)
  BY <1>1, LaneEnds DEF Lane!Answered
<1>2. CASE \E seconds \in Penalty : Lane!Limited(r, seconds)
  <2>1. PICK n \in Penalty : Lane!Limited(r, n)
    BY <1>2
  <2>2. n \in Nat /\ clock + n \in Nat
    BY LaneAssumption DEF LaneInv, LaneTypes
  <2>3. penalty' \in Nat
    BY <2>1, <2>2 DEF Lane!Limited
  <2> QED BY <2>1, <2>3, LaneEnds DEF Lane!Limited
<1> QED BY <1>1, <1>2

\* The first of the order lane is refused, or sleeps, or leaves with a token.
LEMMA LaneUrgentPass ==
    ASSUME LaneInv, NEW CONSTANT r \in Urgent, phase[r] = "queued", Lane!Holder(r),
           Lane!UrgentPass(r), UNCHANGED <<lastPoll, clock, penalty, due>>
    PROVE  LaneInv'
<1>1. /\ LaneTypes /\ Queues /\ Sleeps /\ Dues /\ r \in Lane!Request /\ Lane!LaneOf(r) = "order"
      /\ \A x \in Lane!Request : Lane!LaneOf(x) = "order" <=> x \in Urgent
  BY Lanes DEF LaneInv
<1> DEFINE ban == penalty - clock
           need == IF Lane!Refill >= Spacing THEN 0 ELSE Spacing - Lane!Refill
           wait == Lane!Larger(ban, need)
<1>2. CASE ban > Patience
  <2>1. phase' = [phase EXCEPT ![r] = "over"] /\ lQueue' = [lQueue EXCEPT !["order"] = Tail(@)]
        /\ UNCHANGED <<credit, lastUrgent, wake, gone, leaks>>
    BY <1>2 DEF Lane!UrgentPass
  <2>2. LeavesQueue(r, 1)
    BY <1>1, <2>1, TailLeaves
  <2> QED BY <1>1, <2>1, <2>2, GivesUp
<1>3. CASE ~(ban > Patience)
  <2>1. Lane!TakeToken /\ IF wait > 0 THEN Lane!Sleep(r, wait) ELSE Lane!Leave(r)
    BY <1>3 DEF Lane!UrgentPass
  <2>2. /\ need \in Nat /\ need <= Turn /\ ban \in Int /\ ban <= Turn /\ clock \in Nat /\ penalty \in Nat
        /\ Turn \in Nat /\ Lane!Refill \in Nat /\ Spacing \in Nat
    <3>1. Lane!Refill \in Nat /\ Spacing \in Nat /\ Spacing <= Turn /\ Turn \in Nat /\ Patience <= Turn
      BY <1>1, Prices, RefillIs
    <3>2. clock \in Nat /\ penalty \in Nat /\ Patience \in Nat
      BY <1>1, LaneAssumption DEF LaneTypes
    <3>3. ban \in Int /\ ban <= Turn
      BY <1>3, <3>1, <3>2
    <3>4. need \in Nat /\ need <= Turn
      BY <3>1
    <3> QED BY <3>1, <3>2, <3>3, <3>4
  <2>3. wait \in Int /\ wait <= Turn /\ ban <= wait /\ need <= wait /\ (wait = ban \/ wait = need)
    <3> HIDE DEF need, ban
    <3> QED BY <2>2 DEF Lane!Larger
  <2>4. /\ credit' \in 0 .. Lane!Full /\ lastUrgent' \in 0 .. clock
        /\ Lane!Refill >= Spacing \/ Lane!Refill < Spacing
    BY <1>1, <2>1, <2>2, Takes
  <2>5. \A x \in Lane!Request : Asleep(x) => x \notin Urgent
    <3>1. ASSUME NEW x \in Urgent, Asleep(x) PROVE FALSE
      <4>1. x \in Lane!Request /\ Lane!LaneOf(x) = "order" /\ x # r
        BY <3>1, Lanes DEF Asleep
      <4>2. QueueOf(x)[1] = x /\ QueueOf(r)[1] = r
        BY <1>1, <3>1, <4>1, FirstIs
      <4> QED BY <1>1, <4>1, <4>2 DEF QueueOf
    <3> QED BY <3>1
  <2>6. ~Spent
    BY <2>5, Lanes DEF Spent
  <2>7. CASE wait > 0
    <3>1. Lane!Sleep(r, wait)
      BY <2>1, <2>7
    <3>2. wait \in Nat /\ penalty <= clock + wait
      <4> HIDE DEF wait
      <4> QED BY <2>2, <2>3, <2>7
    <3>3. /\ Queues' /\ Sleeps' /\ Dues' /\ wake' \in [Lane!Request -> Nat] /\ lQueue' = lQueue
          /\ phase' \in [Lane!Request -> {"idle", "queued", "asleep", "sent", "over"}]
          /\ wake'[r] = clock + wait /\ leaks' = leaks /\ gone' = gone
          /\ \A x \in Lane!Request : x # r => phase'[x] = phase[x] /\ wake'[x] = wake[x]
      <4> HIDE DEF wait
      <4> QED BY <1>1, <2>3, <3>1, <3>2, FallsAsleep
    <3>4. LaneTypes'
      BY <1>1, <2>4, <3>3 DEF LaneTypes
    <3>5. ~Spent' \/ Lane!Refill >= Spacing
      <4>1. ASSUME ~(Lane!Refill >= Spacing), NEW x \in Urgent, phase'[x] = "asleep"
            PROVE  ~(credit' + (wake'[x] - lastUrgent') < Spacing)
        <5>1. x = r
          BY <2>5, <3>3, <4>1, Lanes DEF Asleep
        <5>2. credit' = Lane!Refill /\ lastUrgent' = clock /\ Lane!Refill < Spacing
          BY <1>1, <2>1, <2>2, <4>1, Takes
        <5>3. PICK n \in Nat, R \in Nat, c \in Nat, w \in Nat :
                n = Spacing /\ R = Lane!Refill /\ c = clock /\ w = wait /\ w >= n - R
          <6>1. need = Spacing - Lane!Refill
            BY <4>1
          <6>2. wait >= Spacing - Lane!Refill
            <7> HIDE DEF need, wait
            <7> QED BY <2>2, <2>3, <6>1
          <6> HIDE DEF wait
          <6> QED BY <2>2, <3>2, <6>2
        <5>4. wake'[x] = c + w /\ credit' = R /\ lastUrgent' = c
          BY <3>3, <5>1, <5>2, <5>3
        <5> QED BY <5>3, <5>4
      <4> QED BY <4>1 DEF Spent, Asleep
    <3>6. Paced'
      BY <2>1, <2>6, <3>3, <3>5, PacedAsleep
    <3> QED BY <3>3, <3>4, <3>6 DEF LaneInv
  <2>8. CASE ~(wait > 0)
    <3>1. Lane!Leave(r)
      BY <2>1, <2>8
    <3>2. ~(clock < penalty) /\ Lane!Refill >= Spacing
      <4>1. ban <= 0 /\ need <= 0
        <5> HIDE DEF ban, need, wait
        <5> QED BY <2>2, <2>3, <2>8
      <4> QED BY <2>2, <4>1
    <3>3. /\ Queues' /\ Sleeps' /\ Dues'
          /\ lQueue' \in [Lane!Lane -> Seq(Lane!Request)] /\ wake' \in [Lane!Request -> Nat]
          /\ phase' \in [Lane!Request -> {"idle", "queued", "asleep", "sent", "over"}]
          /\ gone' \in [Lane!Request -> 0 .. clock] /\ leaks' \in [Lane!Lane -> {0, 1}]
          /\ gone'[r] = clock /\ \A x \in Lane!Request : x # r => gone'[x] = gone[x]
          /\ \A x \in Lane!Request : phase'[x] = "asleep" => Lane!LaneOf(x) # Lane!LaneOf(r)
      BY <1>1, <3>1, <3>2, Leaves
    <3>4. LaneTypes'
      BY <1>1, <2>4, <3>3 DEF LaneTypes
    <3>5. ~Spent'
      <4>1. ASSUME NEW x \in Urgent, phase'[x] = "asleep" PROVE FALSE
        <5>1. x \in Lane!Request /\ Lane!LaneOf(x) = Lane!LaneOf(r)
          BY <1>1, Lanes
        <5> QED BY <3>3, <4>1, <5>1
      <4> QED BY <4>1 DEF Spent, Asleep
    <3>6. Paced'
      BY <2>1, <3>2, <3>3, <3>5, Lanes, PacedSent
    <3> QED BY <3>3, <3>4, <3>6 DEF LaneInv
  <2> QED BY <2>7, <2>8
<1> QED BY <1>2, <1>3

\* The first of the poll lane sleeps, or leaves.
LEMMA LanePollPass ==
    ASSUME LaneInv, NEW CONSTANT r \in Lane!Request, r \notin Urgent, phase[r] = "queued", Lane!Holder(r),
           Lane!PollPass(r), UNCHANGED <<credit, lastUrgent, clock, penalty, due>>
    PROVE  LaneInv'
<1>1. LaneTypes /\ Queues /\ Sleeps /\ Dues
  BY DEF LaneInv
<1> DEFINE wait == Lane!Larger(penalty - clock, lastPoll + PollSpacing - clock)
<1>2. /\ clock \in Nat /\ penalty \in Nat /\ lastPoll \in -PollSpacing .. clock
      /\ PollSpacing \in Nat /\ clock \in -PollSpacing .. clock /\ wait \in Int /\ penalty - clock <= wait
  <2>1. clock \in Nat /\ penalty \in Nat /\ lastPoll \in -PollSpacing .. clock /\ PollSpacing \in Nat
    BY <1>1, LaneAssumption DEF LaneTypes
  <2>2. wait \in Int /\ penalty - clock <= wait
    BY <2>1 DEF Lane!Larger
  <2> QED BY <2>1, <2>2
<1>3. IF wait > 0 THEN Lane!Sleep(r, wait) /\ UNCHANGED lastPoll ELSE Lane!Leave(r) /\ lastPoll' = clock
  BY DEF Lane!PollPass
<1> HIDE DEF wait
<1>4. CASE wait > 0
  <2>1. wait \in Nat /\ penalty <= clock + wait /\ Lane!Sleep(r, wait) /\ lastPoll' = lastPoll
    BY <1>2, <1>3, <1>4
  <2>2. /\ Queues' /\ Sleeps' /\ Dues' /\ wake' \in [Lane!Request -> Nat] /\ lQueue' = lQueue
        /\ phase' \in [Lane!Request -> {"idle", "queued", "asleep", "sent", "over"}]
        /\ leaks' = leaks /\ gone' = gone
        /\ \A x \in Lane!Request : x # r => phase'[x] = phase[x] /\ wake'[x] = wake[x]
    BY <1>1, <2>1, FallsAsleep
  <2>3. LaneTypes'
    BY <1>1, <2>1, <2>2 DEF LaneTypes
  <2>4. Paced'
    BY <2>2, Lanes, PacedStays DEF Asleep
  <2> QED BY <2>2, <2>3, <2>4 DEF LaneInv
<1>5. CASE ~(wait > 0)
  <2>1. ~(clock < penalty) /\ Lane!Leave(r) /\ lastPoll' = clock
    BY <1>2, <1>3, <1>5
  <2>2. /\ Queues' /\ Sleeps' /\ Dues'
        /\ lQueue' \in [Lane!Lane -> Seq(Lane!Request)] /\ wake' \in [Lane!Request -> Nat]
        /\ phase' \in [Lane!Request -> {"idle", "queued", "asleep", "sent", "over"}]
        /\ gone' \in [Lane!Request -> 0 .. clock] /\ leaks' \in [Lane!Lane -> {0, 1}]
        /\ \A x \in Lane!Request : x # r =>
             phase'[x] = phase[x] /\ wake'[x] = wake[x] /\ gone'[x] = gone[x]
    BY <1>1, <2>1, Leaves
  <2>3. LaneTypes'
    BY <1>1, <1>2, <2>1, <2>2 DEF LaneTypes
  <2>4. Paced'
    BY <2>2, Lanes, PacedStays DEF Asleep
  <2> QED BY <2>2, <2>3, <2>4 DEF LaneInv
<1> QED BY <1>4, <1>5

\* A sleep ends: the request leaves.
LEMMA LaneAwake ==
    ASSUME LaneInv, NEW CONSTANT r \in Lane!Request, Lane!Awake(r)
    PROVE  LaneInv'
<1>1. LaneTypes /\ Queues /\ Sleeps /\ Dues /\ clock \in Nat /\ penalty \in Nat
  BY DEF LaneInv, LaneTypes
<1>2. /\ Asleep(r) /\ Lane!Leave(r) /\ UNCHANGED <<clock, penalty, due>> /\ clock >= wake[r]
  BY DEF Lane!Awake, Asleep
<1>3. clock = wake[r] /\ (leaks[Lane!LaneOf(r)] = 1 => clock >= penalty)
  <2>1. wake[r] \in Nat /\ clock <= wake[r] /\ (leaks[Lane!LaneOf(r)] = 1 => wake[r] >= penalty)
    BY <1>1, <1>2 DEF LaneTypes, Sleeps
  <2> QED BY <1>1, <1>2, <2>1
<1>4. clock < penalty => leaks[Lane!LaneOf(r)] = 0
  <2>1. leaks[Lane!LaneOf(r)] \in {0, 1}
    BY <1>1, Lanes DEF LaneTypes
  <2> QED BY <1>1, <1>3, <2>1
<1>5. Lane!Holder(r)
  BY <1>1, <1>2, FirstIs
<1>6. /\ Queues' /\ Sleeps' /\ Dues'
      /\ lQueue' \in [Lane!Lane -> Seq(Lane!Request)] /\ wake' \in [Lane!Request -> Nat]
      /\ phase' \in [Lane!Request -> {"idle", "queued", "asleep", "sent", "over"}]
      /\ gone' \in [Lane!Request -> 0 .. clock] /\ leaks' \in [Lane!Lane -> {0, 1}]
      /\ phase'[r] = "sent" /\ gone'[r] = clock
      /\ \A x \in Lane!Request : x # r =>
           phase'[x] = phase[x] /\ wake'[x] = wake[x] /\ gone'[x] = gone[x]
      /\ \A x \in Lane!Request : phase'[x] = "asleep" => Lane!LaneOf(x) # Lane!LaneOf(r)
  BY <1>1, <1>2, <1>4, <1>5, Leaves
<1>7. CASE r \in Urgent
  <2>1. Lane!TakeToken /\ lastPoll' = lastPoll
    BY <1>7 DEF Lane!Awake
  <2>2. LaneTypes'
    <3>1. credit' \in 0 .. Lane!Full /\ lastUrgent' \in 0 .. clock
      BY <1>1, <1>2, <2>1, Takes
    <3> QED BY <1>1, <1>2, <1>6, <2>1, <3>1 DEF LaneTypes
  <2>3. ~Spent'
    <3>1. \A x \in Urgent : phase'[x] # "asleep"
      BY <1>6, <1>7, Lanes
    <3> QED BY <3>1 DEF Spent, Asleep
  <2>4. Lane!Refill >= Spacing \/ Spent
    <3>1. Lane!Refill \in Nat /\ Spacing \in Nat
      BY <1>1, Prices, RefillIs
    <3>2. CASE Lane!Refill < Spacing
      <4>1. credit + (wake[r] - lastUrgent) < Spacing
        BY <1>1, <1>3, <3>2, RefillIs
      <4> QED BY <1>2, <1>7, <4>1 DEF Spent
    <3>3. Lane!Refill < Spacing \/ Lane!Refill >= Spacing
      BY <3>1
    <3> QED BY <3>2, <3>3
  <2>5. Paced'
    BY <1>2, <1>6, <1>7, <2>1, <2>3, <2>4, Lanes, PacedSent
  <2> QED BY <1>6, <2>2, <2>5 DEF LaneInv
<1>8. CASE r \notin Urgent
  <2>1. lastPoll' = clock /\ UNCHANGED <<credit, lastUrgent>>
    BY <1>8 DEF Lane!Awake
  <2>2. LaneTypes'
    <3>1. clock \in -PollSpacing .. clock
      BY <1>1, LaneAssumption
    <3> QED BY <1>1, <1>2, <1>6, <2>1, <3>1 DEF LaneTypes
  <2>3. Paced'
    <3>1. \A u \in Urgent : gone'[u] = gone[u]
      BY <1>6, <1>8, Lanes
    <3>2. \A u \in Urgent : phase'[u] = phase[u] /\ wake'[u] = wake[u]
      BY <1>6, <1>8, Lanes
    <3> QED BY <1>2, <2>1, <3>1, <3>2, PacedStays DEF Asleep
  <2> QED BY <1>6, <2>2, <2>3 DEF LaneInv
<1> QED BY <1>7, <1>8

\* Time passes only while every lane sleeps or is empty.
LEMMA LaneTick ==
    ASSUME LaneInv, Lane!Tick
    PROVE  LaneInv'
<1>1. LaneTypes /\ Queues /\ Sleeps /\ Dues /\ Paced /\ clock \in Nat /\ clock + 1 \in Nat
  BY DEF LaneInv, LaneTypes
<1>2. /\ clock < MaxClock /\ clock' = clock + 1
      /\ UNCHANGED <<penalty, credit, lastUrgent, lastPoll, lQueue, phase, wake, due, gone, leaks>>
      /\ \A x \in Lane!Request : ~Lane!Ready(x)
  BY DEF Lane!Tick
<1>3. ASSUME NEW x \in Lane!Request, Lane!Holder(x) PROVE Asleep(x) /\ clock + 1 <= wake[x]
  <2>1. Asleep(x) /\ ~(clock >= wake[x])
    BY <1>2, <1>3 DEF Lane!Ready, Asleep
  <2>2. wake[x] \in Nat
    BY <1>1 DEF LaneTypes
  <2> QED BY <1>1, <2>1, <2>2
<1>4. LaneTypes'
  <2>1. clock + 1 \in 1 .. MaxClock
    BY <1>1, <1>2, LaneAssumption
  <2>2. lastUrgent \in 0 .. clock + 1 /\ lastPoll \in -PollSpacing .. clock + 1
    BY <1>1, LaneAssumption DEF LaneTypes
  <2>3. gone \in [Lane!Request -> 0 .. clock + 1]
    <3>1. 0 .. clock \subseteq 0 .. clock + 1
      BY <1>1
    <3> QED BY <1>1, <3>1 DEF LaneTypes
  <2> QED BY <1>1, <1>2, <2>1, <2>2, <2>3 DEF LaneTypes
<1>5. Queues'
  BY <1>1, <1>2, QueuesKept DEF Asleep
<1>6. Sleeps'
  <2>1. ASSUME NEW x \in Lane!Request, Asleep(x)
        PROVE  /\ clock + 1 <= wake[x] /\ (x \in Urgent => wake[x] <= (clock + 1) + Turn)
               /\ leaks[Lane!LaneOf(x)] = 1 => wake[x] >= penalty
    <3>1. clock + 1 <= wake[x]
      BY <1>1, <1>3, <2>1, FirstIs
    <3>2. x \in Urgent => wake[x] <= (clock + 1) + Turn
      <4>1. Turn \in Nat /\ wake[x] \in Nat
        BY <1>1, Prices DEF LaneTypes
      <4>2. x \in Urgent => wake[x] <= clock + Turn
        BY <1>1, <2>1 DEF Sleeps
      <4> QED BY <1>1, <4>1, <4>2
    <3> QED BY <1>1, <2>1, <3>1, <3>2 DEF Sleeps
  <2> QED BY <1>2, <2>1 DEF Sleeps, Asleep
<1>7. Dues'
  <2>1. ASSUME Len(Orders) > 0 PROVE From' = From
    <3>1. /\ Orders \in Seq(Lane!Request) /\ 1 \in 1 .. Len(Orders) /\ Orders[1] \in Lane!Request
          /\ Lane!LaneOf(Orders[1]) = "order" /\ lQueue["order"] = Orders
      <4>1. Orders \in Seq(Lane!Request) /\ "order" \in Lane!Lane
        BY <1>1, Lanes DEF Orders, LaneTypes
      <4>2. 1 \in 1 .. Len(Orders) /\ Orders[1] \in Lane!Request
        BY <2>1, <4>1
      <4> QED BY <1>1, <4>1, <4>2 DEF Orders, Queues
    <3>2. Lane!Holder(Orders[1])
      <4>1. Orders # <<>> /\ Orders[1] = Head(Orders)
        BY <2>1, <3>1
      <4> QED BY <3>1, <4>1 DEF Lane!Holder
    <3>3. Asleep(Orders[1])
      BY <1>3, <3>1, <3>2
    <3>4. From = wake[Orders[1]] - Turn
      BY <2>1, <3>3 DEF From
    <3>5. Orders' = Orders
      BY <1>2 DEF Orders
    <3>6. phase'[Orders'[1]] = "asleep" /\ Len(Orders') > 0 /\ wake'[Orders'[1]] = wake[Orders[1]]
      BY <1>2, <2>1, <3>3, <3>5 DEF Asleep
    <3>7. From' = wake'[Orders'[1]] - Turn
      BY <3>6 DEF From, Asleep
    <3> QED BY <3>4, <3>6, <3>7
  <2>2. From \in Int /\ From <= From
    BY <1>1, FromIs
  <2> QED BY <1>1, <1>2, <2>1, <2>2, DuesKept
<1>8. PICK f \in Nat, n \in Nat, R \in Nat, k \in Nat, c \in Nat :
        f = Lane!Full /\ n = Spacing /\ R = Lane!Refill /\ R <= f /\ k = Slack /\ k <= n /\ c = clock
  <2>1. Lane!Full \in Nat /\ Spacing \in Nat
    BY Prices
  <2>2. Lane!Refill \in Nat /\ Lane!Refill <= Lane!Full
    BY <1>1, <2>1, RefillIs
  <2> QED BY <1>1, <2>1, <2>2, Slacks
<1>9. Slack' = k
  BY <1>2, <1>8 DEF Slack, Spent, Asleep
<1>10. Lane!Refill' \in Nat /\ Lane!Refill' <= R + 1 /\ Lane!Refill' <= f
  <2>1. PICK p \in Nat : p = credit + clock - lastUrgent /\ credit' + clock' - lastUrgent' = p + 1
    <3>1. credit \in Nat /\ lastUrgent \in Nat /\ lastUrgent <= clock
      BY <1>1, Prices DEF LaneTypes
    <3> QED BY <1>1, <1>2, <3>1
  <2>2. R = IF f < p THEN f ELSE p
    BY <1>8, <2>1 DEF Lane!Refill, Lane!Smaller
  <2>3. Lane!Refill' = IF Lane!Full < credit' + clock' - lastUrgent' THEN Lane!Full
                       ELSE credit' + clock' - lastUrgent'
    BY DEF Lane!Refill, Lane!Smaller, Lane!Full
  <2>4. Lane!Refill' = IF f < p + 1 THEN f ELSE p + 1
    BY <1>8, <2>1, <2>3
  <2> QED BY <1>8, <2>1, <2>2, <2>4
<1>11. \A s, t : Sent(s, t)' = Sent(s, t)
  <2>1. ASSUME NEW CONSTANT s, NEW CONSTANT t PROVE Sent(s, t)' = Sent(s, t)
    BY <1>2, SentStays
  <2> QED BY <2>1
<1>12. ASSUME NEW s \in 1 .. c
       PROVE  /\ Sent(s, c + 1) = Sent(s, c)
              /\ Price(Sent(s, c)) \in Nat /\ Price(Sent(s, c)) + R <= f + (c - s) + k
  <2>1. \A r \in Urgent : gone[r] \in s .. c + 1 <=> gone[r] \in s .. c
    <3>1. \A r \in Urgent : gone[r] \in 0 .. c
      BY <1>1, <1>8, Lanes DEF LaneTypes
    <3> QED BY <3>1
  <2>2. Sent(s, c + 1) = Sent(s, c)
    <3>1. {r \in Urgent : gone[r] \in s .. c + 1} = {r \in Urgent : gone[r] \in s .. c}
      BY <2>1
    <3> QED BY <3>1 DEF Sent
  <2>3. Price(Sent(s, c)) \in Nat
    BY SentIs, Prices
  <2>4. Price(Sent(s, c)) + R <= f + (c - s) + k
    BY <1>1, <1>8 DEF Paced
  <2> QED BY <2>2, <2>3, <2>4
<1>13. Price(Sent(c + 1, c + 1)) = 0
  <2>1. {r \in Urgent : gone[r] \in c + 1 .. c + 1} = {}
    <3>1. \A r \in Urgent : gone[r] \in 0 .. c
      BY <1>1, <1>8, Lanes DEF LaneTypes
    <3> QED BY <3>1
  <2>2. Sent(c + 1, c + 1) = 0
    BY <2>1, FS_EmptySet DEF Sent
  <2> QED BY <2>2, Prices
<1>14. ASSUME NEW s \in 1 .. c + 1
       PROVE  Price(Sent(s, c + 1)) + Lane!Refill' <= f + ((c + 1) - s) + k
              /\ Price(Sent(s, c + 1)) <= f + ((c + 1) - s) + n
  <2>1. CASE s \in 1 .. c
    <3>1. PICK p \in Nat, q \in Nat : p = Price(Sent(s, c)) /\ q = Lane!Refill'
      BY <1>10, <1>12, <2>1
    <3>2. p + R <= f + (c - s) + k /\ Price(Sent(s, c + 1)) = p
      BY <1>12, <2>1, <3>1
    <3> QED BY <1>8, <1>10, <2>1, <3>1, <3>2
  <2>2. CASE s = c + 1
    BY <1>8, <1>10, <1>13, <2>2
  <2> QED BY <1>8, <2>1, <2>2
<1>15. Paced'
  <2>1. clock' = c + 1
    BY <1>2, <1>8
  <2>2. ASSUME NEW s \in 1 .. c + 1, NEW t \in 1 .. c + 1, s <= t
        PROVE  Price(Sent(s, t)') <= f + (t - s) + n
    <3>1. Sent(s, t)' = Sent(s, t)
      BY <1>11
    <3>2. CASE t = c + 1
      BY <1>14, <3>1, <3>2
    <3>3. CASE t # c + 1
      <4>1. s \in 1 .. clock /\ t \in 1 .. clock
        BY <1>8, <2>2, <3>3
      <4> QED BY <1>1, <1>8, <2>2, <3>1, <4>1 DEF Paced
    <3> QED BY <3>2, <3>3
  <2>3. ASSUME NEW s \in 1 .. c + 1
        PROVE  Price(Sent(s, clock)') + Lane!Refill' <= f + ((c + 1) - s) + k
    <3>1. Sent(s, clock)' = Sent(s, c + 1)
      BY <1>2, <2>1 DEF Sent
    <3> QED BY <1>14, <3>1
  <2> QED BY <1>8, <1>9, <2>1, <2>2, <2>3 DEF Paced, Lane!Full
<1> QED BY <1>4, <1>5, <1>6, <1>7, <1>15 DEF LaneInv

\* Every step keeps the lanes' invariant.
LEMMA LaneStep == ASSUME LaneInv, Lane!Next PROVE LaneInv'
<1>1. ASSUME NEW r \in Lane!Request, Lane!Ask(r) PROVE LaneInv'
  BY <1>1, LaneAsk
<1>2. ASSUME NEW r \in Lane!Request, Lane!Pass(r) PROVE LaneInv'
  <2>1. phase[r] = "queued" /\ Lane!Holder(r) /\ UNCHANGED <<clock, penalty, due>>
    BY <1>2 DEF Lane!Pass
  <2>2. CASE r \in Urgent
    <3>1. Lane!UrgentPass(r) /\ lastPoll' = lastPoll
      BY <1>2, <2>2 DEF Lane!Pass
    <3> QED BY <2>1, <2>2, <3>1, LaneUrgentPass
  <2>3. CASE r \notin Urgent
    <3>1. Lane!PollPass(r) /\ UNCHANGED <<credit, lastUrgent>>
      BY <1>2, <2>3 DEF Lane!Pass
    <3> QED BY <2>1, <2>3, <3>1, LanePollPass
  <2> QED BY <2>2, <2>3
<1>3. ASSUME NEW r \in Lane!Request, Lane!Awake(r) PROVE LaneInv'
  BY <1>3, LaneAwake
<1>4. ASSUME NEW r \in Lane!Request, Lane!Cancel(r) PROVE LaneInv'
  BY <1>4, LaneCancel
<1>5. ASSUME NEW r \in Lane!Request,
             Lane!Answered(r) \/ \E seconds \in Penalty : Lane!Limited(r, seconds)
      PROVE  LaneInv'
  BY <1>5, LaneAnswered
<1>6. ASSUME Lane!Tick PROVE LaneInv'
  BY <1>6, LaneTick
<1> QED BY <1>1, <1>2, <1>3, <1>4, <1>5, <1>6 DEF Lane!Next

\* So does a step of another part.
LEMMA LaneStutter == ASSUME LaneInv, UNCHANGED LaneVars PROVE LaneInv'
<1>1. LaneTypes' /\ Queues' /\ Sleeps' /\ Dues'
  BY DEF LaneInv, LaneTypes, Queues, Sleeps, Dues, From, Orders, Asleep, LaneVars
<1>2. Paced'
  BY PacedStays DEF LaneVars, Asleep
<1> QED BY <1>1, <1>2 DEF LaneInv

\* What the lane promises.
LEMMA LaneSafe ==
    ASSUME LaneInv
    PROVE  Lane!TypeOK /\ Lane!OrdersPrompt /\ Lane!OrdersPaced /\ Lane!PenaltyHeld
<1>1. LaneTypes /\ Queues /\ Sleeps /\ Dues /\ Paced /\ clock \in Nat
  BY DEF LaneInv, LaneTypes
<1>2. Lane!TypeOK
  <2>1. \A r \in Lane!Request : phase[r] = "asleep" => r = Head(lQueue[Lane!LaneOf(r)])
    BY <1>1, FirstIs DEF Asleep, Lane!Holder
  <2>2. clock \in 1 .. MaxClock /\ penalty \in Nat /\ credit \in 0 .. Lane!Full
        /\ phase \in [Lane!Request -> {"idle", "queued", "asleep", "sent", "over"}]
        /\ wake \in [Lane!Request -> Nat] /\ due \in [Urgent -> Nat]
        /\ \A l \in Lane!Lane : lQueue[l] \in Seq(Lane!Request)
    BY <1>1 DEF LaneTypes
  <2>3. 0 .. clock \subseteq 0 .. MaxClock /\ -PollSpacing .. clock \subseteq -PollSpacing .. MaxClock
    BY <2>2, LaneAssumption
  <2>4. lastUrgent \in 0 .. MaxClock /\ lastPoll \in -PollSpacing .. MaxClock
        /\ gone \in [Lane!Request -> 0 .. MaxClock] /\ leaks \in [Lane!Lane -> Nat]
    <3>1. 0 \in Nat /\ 1 \in Nat /\ lastUrgent \in 0 .. clock /\ lastPoll \in -PollSpacing .. clock
          /\ gone \in [Lane!Request -> 0 .. clock] /\ leaks \in [Lane!Lane -> {0, 1}]
      BY <1>1 DEF LaneTypes
    <3>2. gone \in [Lane!Request -> 0 .. MaxClock]
      BY <2>3, <3>1
    <3>3. leaks \in [Lane!Lane -> Nat]
      BY <3>1
    <3> QED BY <2>3, <3>1, <3>2, <3>3
  <2> QED BY <2>1, <2>2, <2>4 DEF Lane!TypeOK
<1>3. Lane!OrdersPrompt
  <2>1. ASSUME NEW r \in Urgent, phase[r] \in {"queued", "asleep"} PROVE clock <= due[r]
    <3>1. r \in Lane!Request /\ Lane!LaneOf(r) = "order" /\ Orders \in Seq(Lane!Request)
      BY <1>1, Lanes DEF LaneTypes, Orders
    <3>2. PICK i \in 1 .. Len(Orders) : Orders[i] = r
      BY <1>1, <2>1, <3>1 DEF Queues, Orders
    <3>3. PICK d \in Nat, F \in Int, a \in Nat, u \in Nat :
            /\ d = due[r] /\ F = From /\ a = Turns(i) /\ u = Turn
            /\ d >= F + a /\ clock <= F + u /\ u <= a
      <4>1. due[r] \in Nat /\ From \in Int /\ clock <= From + Turn /\ Turn \in Nat
        BY <1>1, FromIs, Prices DEF LaneTypes
      <4>2. due[r] >= From + Turns(i)
        BY <1>1, <3>2 DEF Dues
      <4>3. Turns(i) \in Nat /\ Turn <= Turns(i)
        <5>1. PICK j \in Nat : i = j + 1
          <6>1. i - 1 \in Nat /\ i = (i - 1) + 1
            BY <3>1
          <6> QED BY <6>1
        <5>2. Turns(j + 1) = Turns(j) + Turn /\ Turns(j) \in Nat
          BY Prices
        <5> QED BY <4>1, <5>1, <5>2
      <4> QED BY <4>1, <4>2, <4>3
    <3> QED BY <1>1, <3>3
  <2> QED BY <2>1 DEF Lane!OrdersPrompt
<1>4. Lane!OrdersPaced
  <2>1. ASSUME NEW s \in 1 .. clock, NEW t \in 1 .. clock, s <= t
        PROVE  Lane!Cardinality({r \in Urgent : gone[r] \in s .. t}) <= Burst + 1 + (t - s) \div Spacing
    <3>1. Price(Sent(s, t)) <= Lane!Full + (t - s) + Spacing
      BY <1>1, <2>1 DEF Paced
    <3>2. t - s \in Nat
      BY <1>1, <2>1
    <3>3. Sent(s, t) <= Burst + 1 + ((t - s) \div Spacing)
      BY <3>1, <3>2, SentIs, WithinRate
    <3>4. Lane!Cardinality({r \in Urgent : gone[r] \in s .. t}) = Sent(s, t)
      BY DEF Sent, Cardinality, Lane!Cardinality
    <3> QED BY <3>3, <3>4
  <2> QED BY <2>1 DEF Lane!OrdersPaced
<1>5. Lane!PenaltyHeld
  <2>1. \A l \in Lane!Lane : leaks[l] \in {0, 1}
    BY <1>1 DEF LaneTypes
  <2> QED BY <2>1 DEF Lane!PenaltyHeld
<1> QED BY <1>2, <1>3, <1>4, <1>5

-----------------------------------------------------------------------------
(* The suite: a behaviour is one of one part, whose invariant it keeps.    *)

\* The invariant of the part that runs.
TradingInv ==
    /\ part \in Parts
    /\ part = "Bracket" => BracketInv
    /\ part = "Hunter" => HunterInv
    /\ part = "Update" => UpdateInv
    /\ part = "Call" => CallInv
    /\ part = "Lane" => LaneInv
    /\ part = "Client" => ClientInv
    /\ part = "History" => HistoryInv
    /\ part = "News" => NewsInv

\* Every part starts in its invariant.
LEMMA SuiteInit == ASSUME Init PROVE TradingInv
<1>1. part = "Bracket" => BracketInv
  BY BracketInit DEF Init
<1>2. part = "Hunter" => HunterInv
  BY HunterInit DEF Init
<1>3. part = "Update" => UpdateInv
  BY UpdateInit DEF Init
<1>4. part = "Call" => CallInv
  BY CallInit DEF Init
<1>5. part = "Lane" => LaneInv
  BY LaneInit DEF Init
<1>6. part = "Client" => ClientInv
  BY ClientInit DEF Init
<1>7. part = "History" => HistoryInv
  BY HistoryInit DEF Init
<1>8. part = "News" => NewsInv
  BY NewsInit DEF Init
<1>9. part \in Parts
  BY DEF Init
<1> QED
  BY <1>1, <1>2, <1>3, <1>4, <1>5, <1>6, <1>7, <1>8, <1>9 DEF TradingInv

\* A step is of the part that runs, and the part stays the one that runs.
LEMMA SuiteStep == ASSUME TradingInv, [Next]_vars PROVE TradingInv'
<1> USE DEF Parts
<1>1. CASE RunBracket
  <2>1. part = "Bracket" /\ part' = "Bracket" /\ BracketInv /\ Bracket!Next
    BY <1>1 DEF RunBracket, TradingInv
  <2>2. BracketInv'
    BY <2>1, BracketStep
  <2> QED
    BY <2>1, <2>2 DEF TradingInv
<1>2. CASE RunHunter
  <2>1. part = "Hunter" /\ part' = "Hunter" /\ HunterInv /\ Hunter!Next
    BY <1>2 DEF RunHunter, TradingInv
  <2>2. HunterInv'
    BY <2>1, HunterStep
  <2> QED
    BY <2>1, <2>2 DEF TradingInv
<1>3. CASE RunUpdate
  <2>1. part = "Update" /\ part' = "Update" /\ UpdateInv /\ Update!Next
    BY <1>3 DEF RunUpdate, TradingInv
  <2>2. UpdateInv'
    BY <2>1, UpdateStep
  <2> QED
    BY <2>1, <2>2 DEF TradingInv
<1>4. CASE RunCall
  <2>1. part = "Call" /\ part' = "Call" /\ CallInv /\ Call!Next
    BY <1>4 DEF RunCall, TradingInv
  <2>2. CallInv'
    BY <2>1, CallStep
  <2> QED
    BY <2>1, <2>2 DEF TradingInv
<1>5. CASE RunLane
  <2>1. part = "Lane" /\ part' = "Lane" /\ LaneInv /\ Lane!Next
    BY <1>5 DEF RunLane, TradingInv
  <2>2. LaneInv'
    BY <2>1, LaneStep
  <2> QED
    BY <2>1, <2>2 DEF TradingInv
<1>6. CASE RunClient
  <2>1. part = "Client" /\ part' = "Client" /\ ClientInv /\ Client!Next
    BY <1>6 DEF RunClient, TradingInv
  <2>2. ClientInv'
    BY <2>1, ClientStep
  <2> QED
    BY <2>1, <2>2 DEF TradingInv
<1>7. CASE RunHistory
  <2>1. part = "History" /\ part' = "History" /\ HistoryInv /\ History!Next
    BY <1>7 DEF RunHistory, TradingInv
  <2>2. HistoryInv'
    BY <2>1, HistoryStep
  <2> QED
    BY <2>1, <2>2 DEF TradingInv
<1>8. CASE RunNews
  <2>1. part = "News" /\ part' = "News" /\ NewsInv /\ News!Next
    BY <1>8 DEF RunNews, TradingInv
  <2>2. NewsInv'
    BY <2>1, NewsStep
  <2> QED
    BY <2>1, <2>2 DEF TradingInv
<1>9. CASE UNCHANGED vars
  <2>1. part' = part
    BY <1>9 DEF vars
  <2>2. part = "Bracket" => BracketInv'
    BY <1>9, BracketStutter DEF vars, TradingInv
  <2>3. part = "Hunter" => HunterInv'
    BY <1>9, HunterStutter DEF vars, TradingInv
  <2>4. part = "Update" => UpdateInv'
    BY <1>9, UpdateStutter DEF vars, TradingInv
  <2>5. part = "Call" => CallInv'
    BY <1>9, CallStutter DEF vars, TradingInv
  <2>6. part = "Lane" => LaneInv'
    BY <1>9, LaneStutter DEF vars, TradingInv
  <2>7. part = "Client" => ClientInv'
    BY <1>9, ClientStutter DEF vars, TradingInv
  <2>8. part = "History" => HistoryInv'
    BY <1>9, HistoryStutter DEF vars, TradingInv
  <2>9. part = "News" => NewsInv'
    BY <1>9, NewsStutter DEF vars, TradingInv
  <2> QED
    BY <2>1, <2>2, <2>3, <2>4, <2>5, <2>6, <2>7, <2>8, <2>9 DEF TradingInv
<1> QED
  BY <1>1, <1>2, <1>3, <1>4, <1>5, <1>6, <1>7, <1>8, <1>9 DEF Next

\* The invariants of the eight parts hold throughout.
THEOREM TradingInvariant == Spec => []TradingInv
  BY SuiteInit, SuiteStep, PTL DEF Spec

\* Every part keeps its types: among them, that only the holder of a lane's lock sleeps, that
\* the token bucket stays within its size, and that what a history batch is given fits it.
THEOREM TypesCorrect == Spec => []TypeOK
<1>1. TradingInv => TypeOK
  <2> SUFFICES ASSUME TradingInv PROVE TypeOK
    OBVIOUS
  <2>1. part = "Bracket" => Bracket!TypeOK
    BY BracketSafe DEF TradingInv
  <2>2. part = "Hunter" => Hunter!TypeOK
    BY DEF TradingInv, HunterInv
  <2>3. part = "Update" => Update!TypeOK
    BY UpdateSafe DEF TradingInv
  <2>4. part = "Call" => Call!TypeOK
    BY DEF TradingInv, CallInv
  <2>5. part = "Lane" => Lane!TypeOK
    BY LaneSafe DEF TradingInv
  <2>6. part = "Client" => Client!TypeOK
    BY DEF TradingInv, ClientInv
  <2>7. part = "History" => History!TypeOK
    BY HistorySafe DEF TradingInv
  <2>8. part = "News" => News!TypeOK
    BY NewsSafe DEF TradingInv
  <2> QED
    BY <2>1, <2>2, <2>3, <2>4, <2>5, <2>6, <2>7, <2>8 DEF TypeOK
<1> QED
  BY <1>1, TradingInvariant, PTL

\* However the broker answers or stays silent, and whatever fills meanwhile: an entry never
\* has two working stops, one tracked as protected is, what a failed stop leaves was told,
\* and a failed entry leaves no order that was not reported (app/engine/common.py).
THEOREM EntriesAreProtected == Spec => []Protected
<1>1. TradingInv => Protected
  <2> SUFFICES ASSUME TradingInv PROVE Protected
    OBVIOUS
  <2>1. part = "Bracket" => /\ Bracket!OneStop /\ Bracket!TrackedIsProtected /\ Bracket!NakedHasCause
                             /\ Bracket!FailedClosesEntry /\ Bracket!SurvivorsHaveCause
    BY BracketSafe DEF TradingInv
  <2> QED
    BY <2>1 DEF Protected
<1> QED
  BY <1>1, TradingInvariant, PTL

\* For any percentages and any number of signals: a full close that reports success left the
\* trade flat and without a stop, a partial one left a record that tells the truth, harm is
\* reported (app/engine/ts_hunter.py); and a news flatten without errors closed every
\* position that was open when it began (app/news.py).
THEOREM ClosesAreTrue == Spec => []ClosedMeansFlat
<1>1. TradingInv => ClosedMeansFlat
  <2> SUFFICES ASSUME TradingInv PROVE ClosedMeansFlat
    OBVIOUS
  <2>1. part = "Hunter" => Hunter!ClosedMeansFlat /\ Hunter!RecordMatches /\ Hunter!HarmIsReported
    BY HunterSafe DEF TradingInv
  <2>2. part = "News" => News!CleanMeansFlat
    BY NewsSafe DEF TradingInv
  <2> QED
    BY <2>1, <2>2 DEF ClosedMeansFlat
<1> QED
  BY <1>1, TradingInvariant, PTL

\* For any number of moves of the stop, target updates, hits and faults that interleave: at
\* rest, with no error logged and no target filled under set_sl_tp, the working stops are for
\* exactly the contracts held, and a flat account keeps a stop only beside a target of
\* set_sl_tp's that filled, in its record; no order that may work is missing from the record
\* (app/engine/manage.py, bracket.py).
THEOREM StopsCover == Spec => []Covered
<1>1. TradingInv => Covered
  <2> SUFFICES ASSUME TradingInv PROVE Covered
    OBVIOUS
  <2>1. part = "Update" => /\ Update!HeldIsCovered /\ Update!FlatStopIsKnown
                            /\ Update!RecordKeepsOrders
    BY UpdateSafe DEF TradingInv
  <2> QED
    BY <2>1 DEF Covered
<1> QED
  BY <1>1, TradingInvariant, PTL

\* Whatever happens to the answers of a call, with every adapter: what its caller is told of
\* as accepted works, as refused only where a reset connection or an answer without an id was
\* misread or a first leg was not taken back (app/tradovate.py, projectx.py, rithmic.py).
THEOREM CallersAreToldTheTruth == Spec => []ToldIsTrue
<1>1. TradingInv => ToldIsTrue
  <2> SUFFICES ASSUME TradingInv PROVE ToldIsTrue
    OBVIOUS
  <2>1. part = "Call" => Call!ToldIsTrue
    BY DEF TradingInv, CallInv
  <2> QED
    BY <2>1 DEF ToldIsTrue
<1> QED
  BY <1>1, TradingInvariant, PTL

\* For any requests, burst, spacing, penalties and patience: an order is sent or refused after
\* at most a turn for itself and for each that was ahead of it, any stretch of time sees at
\* most a burst, an order per spacing and one, and a lane lets at most one request into a
\* penalty (app/tradovate.py, the request lanes).
THEOREM RequestsArePaced == Spec => []OrdersPrompt
<1>1. TradingInv => OrdersPrompt
  <2> SUFFICES ASSUME TradingInv PROVE OrdersPrompt
    OBVIOUS
  <2>1. part = "Lane" => Lane!OrdersPrompt /\ Lane!OrdersPaced /\ Lane!PenaltyHeld
    BY LaneSafe DEF TradingInv
  <2> QED
    BY <2>1 DEF OrdersPrompt
<1> QED
  BY <1>1, TradingInvariant, PTL

\* For any number of clients and of pasted logins: a session holds one login of the user and
\* loses sight of none (app/rithmic.py).
THEOREM LoginsAreHeld == Spec => []OneLogin
<1>1. TradingInv => OneLogin
  <2> SUFFICES ASSUME TradingInv PROVE OneLogin
    OBVIOUS
  <2>1. part = "Client" => Client!OneLogin
    BY ClientSafe DEF TradingInv
  <2> QED
    BY <2>1 DEF OneLogin
<1> QED
  BY <1>1, TradingInvariant, PTL

\* For any number of rows, any size of the queue and of the batches, and any failures: when
\* the writer has ended, every row handed over is in the database or was reported, in order
\* and once (app/history.py).
THEOREM RowsAreKept == Spec => []NothingLost
<1>1. TradingInv => NothingLost
  <2> SUFFICES ASSUME TradingInv PROVE NothingLost
    OBVIOUS
  <2>1. part = "History" => History!NothingLost /\ History!RowsInOrder
    BY HistorySafe DEF TradingInv
  <2> QED
    BY <2>1 DEF NothingLost
<1> QED
  BY <1>1, TradingInvariant, PTL

\* For any windows, edits, fetches and life of the memo: no entry passes the gate once a news
\* window has been open for as long as the memo lives (app/news.py).
THEOREM GateStaysClosed == Spec => GateClosed
<1>1. TradingInv /\ [Next]_vars => [part = "News" => News!GateStep]_vars
  <2> SUFFICES ASSUME TradingInv, Next, part = "News" PROVE News!GateStep
    OBVIOUS
  <2>1. NewsInv /\ News!Next
    BY DEF TradingInv, Next, RunBracket, RunHunter, RunUpdate, RunCall, RunLane, RunClient,
       RunHistory, RunNews
  <2> QED
    BY <2>1, GateHolds
<1> QED
  BY <1>1, TradingInvariant, PTL DEF Spec, GateClosed

=============================================================================
