---------------------------- MODULE LoginClient -----------------------------
(***************************************************************************)
(* A Rithmic session and its socket clients (rithmic.py, RithmicSession):  *)
(* every call that needs the broker takes a connected client from _ensure, *)
(* one caller at a time; the library reconnects a client on its own; new   *)
(* credentials, a closed session, a failed or cancelled connect drop one.  *)
(* The broker counts the logins of a user: a client that is not closed     *)
(* holds one.                                                              *)
(***************************************************************************)
EXTENDS Naturals, FiniteSets

CONSTANTS MaxClients, MaxPastes

Client == 1 .. MaxClients

VARIABLES
    creds,      \* the session's credentials, by the number of their paste
    client,     \* _client, 0 when it has none
    state,      \* per client: "none", "connecting", "up", "down", "closing", "gone"
    with,       \* per client: the credentials it logged in with
    ensure,     \* the caller in _ensure: "idle", "grace", "connecting", "retry", "asking"
    attempt,
    closed      \* close was called: the manager replaced the session

vars == <<creds, client, state, with, ensure, attempt, closed>>

TypeOK ==
    /\ creds \in 0 .. MaxPastes /\ client \in 0 .. MaxClients
    /\ state \in [Client -> {"none", "connecting", "up", "down", "closing", "gone"}]
    /\ with \in [Client -> 0 .. MaxPastes]
    /\ ensure \in {"idle", "grace", "connecting", "retry", "asking"}
    /\ attempt \in 1 .. 2 /\ closed \in BOOLEAN
    /\ client # 0 => state[client] \in {"up", "down"}
    /\ ensure = "connecting" <=> \E c \in Client : state[c] = "connecting"

Init ==
    /\ creds = 0 /\ client = 0
    /\ state = [c \in Client |-> "none"] /\ with = [c \in Client |-> 0]
    /\ ensure = "idle" /\ attempt = 1 /\ closed = FALSE
------------------------------------------------------------------------------
Connected == client # 0 /\ state[client] = "up"

\* _disconnect_later: its sockets are closed in the background.
Retire(c, st) == IF c = 0 THEN st ELSE [st EXCEPT ![c] = "closing"]

\* _make_client, with the credentials the session has at that moment.
Make(n, st) ==
    /\ \E c \in Client :
        /\ st[c] = "none" /\ \A d \in Client : st[d] = "none" => c <= d
        /\ state' = [st EXCEPT ![c] = "connecting"]
        /\ with' = [with EXCEPT ![c] = creds]
    /\ ensure' = "connecting" /\ attempt' = n

\* _ensure: a client that is not connected is given time to reconnect.
Ensure ==
    /\ ensure = "idle" /\ ~Connected
    /\ IF client # 0
         THEN ensure' = "grace" /\ UNCHANGED <<state, with, attempt>>
         ELSE Make(1, state)
    /\ UNCHANGED <<creds, client, closed>>

GraceEnds ==
    /\ ensure = "grace"
    /\ IF Connected
         THEN ensure' = "idle" /\ UNCHANGED <<client, state, with, attempt>>
         ELSE client' = 0 /\ Make(1, Retire(client, state))
    /\ UNCHANGED <<creds, closed>>

LogsIn(c) ==
    /\ state[c] = "connecting"
    /\ state' = [state EXCEPT ![c] = "up"]
    /\ client' = c /\ ensure' = "idle"
    /\ UNCHANGED <<creds, with, attempt, closed>>

\* Fault: a half-connected client is left where it is.
ConnectFailsLeft(c) ==
    /\ state[c] = "connecting"
    /\ state' = [state EXCEPT ![c] = "down"]
    /\ ensure' \in {"idle", "asking"} \cup (IF attempt = 1 THEN {"retry"} ELSE {})
    /\ UNCHANGED <<creds, client, with, attempt, closed>>

\* A refusal or a timeout: a handshake that timed out is tried once more, another
\* failure asks the gateway for its systems to explain itself; a cancelled caller
\* is gone.
ConnectFails(c) ==
    /\ state[c] = "connecting"
    /\ state' = Retire(c, state)
    /\ ensure' \in {"idle", "asking"} \cup (IF attempt = 1 THEN {"retry"} ELSE {})
    /\ UNCHANGED <<creds, client, with, attempt, closed>>

Again ==
    /\ ensure = "retry"
    /\ Make(2, state)
    /\ UNCHANGED <<creds, client, closed>>

\* The explanation is raised, or the caller is cancelled in one of its sleeps.
Raises ==
    /\ ensure \in {"asking", "grace", "retry"}
    /\ ensure' = "idle"
    /\ UNCHANGED <<creds, client, state, with, attempt, closed>>

\* adopt_credentials, on a reload after the user's edit.
Adopt ==
    /\ ~closed /\ creds < MaxPastes
    /\ creds' = creds + 1
    /\ state' = Retire(client, state) /\ client' = 0
    /\ UNCHANGED <<with, ensure, attempt, closed>>

\* close: a changed login has a session of its own from now on; a caller that
\* holds this one may go on with it.
Close ==
    /\ ~closed /\ closed' = TRUE
    /\ state' = Retire(client, state) /\ client' = 0
    /\ UNCHANGED <<creds, with, ensure, attempt>>

Disconnected(c) ==
    /\ state[c] = "closing"
    /\ state' = [state EXCEPT ![c] = "gone"]
    /\ UNCHANGED <<creds, client, with, ensure, attempt, closed>>

\* The network, and the library's own reconnection.
Flicker(c) ==
    /\ state[c] \in {"up", "down"}
    /\ state' = [state EXCEPT ![c] = IF @ = "up" THEN "down" ELSE "up"]
    /\ UNCHANGED <<creds, client, with, ensure, attempt, closed>>

Next ==
    \/ Ensure \/ GraceEnds \/ Again \/ Raises \/ Adopt \/ Close
    \/ \E c \in Client : LogsIn(c) \/ ConnectFails(c) \/ Disconnected(c) \/ Flicker(c)

Spec == Init /\ [][Next]_vars
------------------------------------------------------------------------------
(* Properties                                                              *)

Holding == {c \in Client : state[c] \in {"connecting", "up", "down"}}

\* Whatever fails, is cancelled, replaced or reconnects meanwhile, a session holds
\* at most one of the user's logins, and none that it has lost sight of: a client
\* that is not being closed is the session's, or the one that is connecting.
OneLogin ==
    /\ Cardinality(Holding) <= 1
    /\ \A c \in Holding : c = client \/ state[c] = "connecting"

\* "next call logs in with the new credentials" (rithmic.py): the client a caller
\* gets is one of the session's credentials.
NewCredentials == client # 0 => with[client] = creds

\* A closed session holds no login of the broker's.
ClosedIsGone == closed => client = 0
==============================================================================
