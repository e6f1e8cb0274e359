---------------------------- MODULE ManualOrders ----------------------------
(***************************************************************************)
(* The manual-order boundary: LocalExecutionService.place_manual_order     *)
(* (app/execution/service.py) over the durable command ledger              *)
(* (app/db/execution.py).  A call claims its Idempotency-Key in the        *)
(* ledger, checks permissions, awaits the broker's contract, checks again, *)
(* records the dispatch, sends the order once and records the outcome.     *)
(*                                                                         *)
(* Every ledger statement runs in a worker thread (asyncio.to_thread):     *)
(* `jobs' holds the statements submitted to the pool.  Cancelling the      *)
(* coroutine does not stop a statement that is already running, so a job   *)
(* may outlive its call.  The claim and the start-up and retention         *)
(* statements commit with synchronous=FULL, the others with NORMAL: a      *)
(* power loss may undo a suffix of the NORMAL commits, never a FULL one.   *)
(* `older' is the set of ledger images the disk may still hold.            *)
(***************************************************************************)
EXTENDS Integers, FiniteSets, TLC

CONSTANTS Key,          \* command identities: (area_id, command_id)
          Intent,       \* fingerprints of an instruction
          Call,         \* slots for HTTP requests (recycled when a key expires)
          MaxCrash,     \* bound: process crashes and power losses
          MaxPrune      \* bound: expired identities

ASSUME BoundsAssumption == MaxCrash \in Nat /\ MaxPrune \in Nat

VARIABLES rows,     \* Key -> ledger row as every connection sees it
          older,    \* earlier ledger images a power loss may bring back
          jobs,     \* ledger statements in the thread pool
          co,       \* Call -> where its coroutine stands
          req,      \* Call -> key and intent it carries
          reply,    \* Call -> answer given to the client
          gates,    \* permissions that hold now
          wire,     \* calls whose order request is on its way to the broker
          verdict,  \* Call -> what the broker did with its request
          up,       \* the process is running and accepts requests
          crashes,  \* crashes so far
          \* history variables, read by no action of the program
          sent,     \* Key -> place_order calls under the retained identity
          taken,    \* Key -> orders the broker took under it
          expired,  \* Key -> times the identity was deleted
          past,     \* Key -> place_order calls under deleted identities
          stranded  \* keys whose row was abandoned in an open state

ledger == <<rows, older>>
broker == <<wire, verdict, taken>>
ghosts == <<sent, expired, past, stranded>>
vars == <<rows, older, jobs, co, req, reply, gates, wire, verdict, up, crashes,
          sent, taken, expired, past, stranded>>

Open == {"claimed", "dispatching"}
Terminal == {"accepted", "rejected", "unknown"}
Row == [outcome: {"absent"} \cup Open \cup Terminal, intent: Intent]
Gate == {"write", "trading", "entitled"}

\* A call that owns its row and has not sent its order yet, and every owner.
BeforeSend == {"check", "resolve", "authorize2", "check2", "dispatching", "ready"}
Owner == BeforeSend \cup {"sending"}
\* Awaiting the statement that records the outcome.
Recording == {"accepting", "rejecting", "unsure", "interrupted"}
Awaiting == {"authorize", "claiming"} \cup Owner \cup Recording
Answer == {"none", "forbidden", "error", "unavailable", "conflict", "in_progress",
           "rejected", "unknown", "accepted", "cancelled", "lost"}

Job == [call: Call, op: {"claim", "dispatch"} \cup Terminal]

TypeOK ==
  /\ rows \in [Key -> Row]
  /\ older \subseteq [Key -> Row]
  /\ jobs \subseteq Job
  /\ co \in [Call -> {"new", "done"} \cup Awaiting]
  /\ req \in [Call -> [key: Key, intent: Intent]]
  /\ reply \in [Call -> Answer]
  /\ gates \subseteq Gate
  /\ wire \subseteq Call
  /\ verdict \in [Call -> {"none", "taken", "refused"}]
  /\ up \in BOOLEAN
  /\ crashes \in Nat
  /\ sent \in [Key -> Nat] /\ taken \in [Key -> Nat]
  /\ expired \in [Key -> Nat] /\ past \in [Key -> Nat]
  /\ stranded \subseteq Key

Init ==
  /\ \E i \in Intent : rows = [k \in Key |-> [outcome |-> "absent", intent |-> i]]
  /\ older = {} /\ jobs = {}
  /\ co = [c \in Call |-> "new"]
  /\ \E k \in Key, i \in Intent : req = [c \in Call |-> [key |-> k, intent |-> i]]
  /\ reply = [c \in Call |-> "none"]
  /\ gates = Gate
  /\ wire = {} /\ verdict = [c \in Call |-> "none"]
  /\ up = TRUE /\ crashes = 0
  /\ sent = [k \in Key |-> 0] /\ taken = [k \in Key |-> 0]
  /\ expired = [k \in Key |-> 0] /\ past = [k \in Key |-> 0]
  /\ stranded = {}

-----------------------------------------------------------------------------
(* Helpers *)

K(c) == req[c].key
Goto(c, l) == co' = [co EXCEPT ![c] = l]
Reply(c, a) == Goto(c, "done") /\ reply' = [reply EXCEPT ![c] = a]

\* A statement committed with synchronous=NORMAL / FULL.
CommitNormal(t) == rows' = t /\ older' = older \cup {rows}
\* Fault: the claim is committed like every other statement.
CommitFullAsNormal(t) == rows' = t /\ older' = older \cup {rows}
CommitFull(t) == rows' = t /\ older' = {}

\* The outcome each recording state writes, and the answer it ends in.
Outcome(l) == CASE l = "accepting" -> "accepted"
                [] l = "rejecting" -> "rejected"
                [] OTHER -> "unknown"
Ending(l, written) == CASE l = "accepting" -> IF written THEN "accepted" ELSE "unknown"
                        [] l = "rejecting" -> "rejected"
                        [] l = "unsure" -> "unknown"
                        [] OTHER -> "cancelled"

\* The statement a suspended coroutine waits for.
Awaited(c) == {[call |-> c, op |-> CASE co[c] = "claiming" -> "claim"
                                     [] co[c] = "dispatching" -> "dispatch"
                                     [] OTHER -> Outcome(co[c])]} \cap jobs

\* Fault: the stage of the call is stored in place of its outcome.
FinishVerbatim(c, l) == Goto(c, l) /\ jobs' = jobs \cup {[call |-> c, op |-> l]}

\* _finish: hand the terminal outcome to a thread and await it.
Finish(c, l) == Goto(c, l) /\ jobs' = jobs \cup {[call |-> c, op |-> Outcome(l)]}

\* _replay: the answer a repeated key gets from the row it finds.
Replay(c, row) ==
  CASE row.intent # req[c].intent -> "conflict"
    [] row.outcome \in Open -> "in_progress"
    [] OTHER -> row.outcome

-----------------------------------------------------------------------------
(* One call of place_manual_order *)

Arrive(c) ==
  /\ up /\ co[c] = "new"
  /\ \E k \in Key, i \in Intent : req' = [req EXCEPT ![c] = [key |-> k, intent |-> i]]
  /\ Goto(c, "authorize")
  /\ UNCHANGED <<ledger, jobs, reply, gates, broker, up, crashes, ghosts>>

\* _authorize, then ledger.claim is handed to a thread.  A database error here
\* is not caught: the request ends in a server error.
Authorize(c) ==
  /\ co[c] = "authorize"
  /\ \/ "write" \in gates /\ Goto(c, "claiming")
        /\ jobs' = jobs \cup {[call |-> c, op |-> "claim"]} /\ UNCHANGED reply
     \/ "write" \notin gates /\ Reply(c, "forbidden") /\ UNCHANGED jobs
     \/ Reply(c, "error") /\ UNCHANGED jobs
  /\ UNCHANGED <<ledger, req, gates, broker, up, crashes, ghosts>>

\* Fault: a key whose command was rejected may be claimed again.
ClaimRowAgain(c) ==
  LET k == K(c)
      fresh == rows[k].outcome \in {"absent", "rejected"}
  IN /\ [call |-> c, op |-> "claim"] \in jobs
     /\ jobs' = jobs \ {[call |-> c, op |-> "claim"]}
     /\ IF fresh
        THEN CommitFull([rows EXCEPT ![k] = [outcome |-> "claimed", intent |-> req[c].intent]])
        ELSE UNCHANGED ledger
     /\ IF co[c] # "claiming" THEN UNCHANGED <<co, reply>>
        ELSE IF fresh THEN Goto(c, "check") /\ UNCHANGED reply
        ELSE Reply(c, Replay(c, rows[k]))
     /\ UNCHANGED <<req, gates, broker, up, crashes, ghosts>>

\* ledger.claim: INSERT .. ON CONFLICT DO NOTHING, read back, commit FULL.
\* A call cancelled meanwhile never learns that the row is its own.
ClaimRow(c) ==
  LET k == K(c)
      fresh == rows[k].outcome = "absent"
  IN /\ [call |-> c, op |-> "claim"] \in jobs
     /\ jobs' = jobs \ {[call |-> c, op |-> "claim"]}
     /\ IF fresh
        THEN CommitFull([rows EXCEPT ![k] = [outcome |-> "claimed", intent |-> req[c].intent]])
        ELSE UNCHANGED ledger
     /\ IF co[c] # "claiming" THEN UNCHANGED <<co, reply>>
        ELSE IF fresh THEN Goto(c, "check") /\ UNCHANGED reply
        ELSE Reply(c, Replay(c, rows[k]))
     /\ stranded' = IF fresh /\ co[c] # "claiming" THEN stranded \cup {k} ELSE stranded
     /\ UNCHANGED <<req, gates, broker, up, crashes, sent, expired, past>>

ClaimFails(c) ==
  /\ [call |-> c, op |-> "claim"] \in jobs
  /\ jobs' = jobs \ {[call |-> c, op |-> "claim"]}
  /\ IF co[c] = "claiming" THEN Reply(c, "unavailable") ELSE UNCHANGED <<co, reply>>
  /\ UNCHANGED <<ledger, req, gates, broker, up, crashes, ghosts>>

\* One await before the order leaves; an error in it means nothing was sent.
Step(c, from, needs, to) ==
  /\ co[c] = from
  /\ \/ needs \subseteq gates /\ Goto(c, to) /\ UNCHANGED jobs
     \/ Finish(c, "rejecting")     \* denied, unknown account, broker or storage error
  /\ UNCHANGED <<ledger, req, reply, gates, broker, up, crashes, ghosts>>

Check(c) == Step(c, "check", {"trading", "entitled"}, "resolve")
Resolve(c) == Step(c, "resolve", {}, "authorize2")
Authorize2(c) == Step(c, "authorize2", {"write"}, "check2")

\* The second _manual_allowed, then ledger.dispatch is handed to a thread.
Check2(c) ==
  /\ co[c] = "check2"
  /\ \/ /\ {"trading", "entitled"} \subseteq gates
        /\ Goto(c, "dispatching")
        /\ jobs' = jobs \cup {[call |-> c, op |-> "dispatch"]}
     \/ Finish(c, "rejecting")
  /\ UNCHANGED <<ledger, req, reply, gates, broker, up, crashes, ghosts>>

\* Fault: the UPDATE has no WHERE outcome='claimed'.
DispatchRowBlind(c) ==
  LET j == [call |-> c, op |-> "dispatch"]
  IN /\ j \in jobs /\ jobs' = jobs \ {j}
     /\ CommitNormal([rows EXCEPT ![K(c)].outcome = "dispatching"])
     /\ IF co[c] # "dispatching" THEN UNCHANGED co ELSE Goto(c, "ready")
     /\ UNCHANGED <<req, reply, gates, broker, up, crashes, ghosts>>

\* ledger.dispatch: UPDATE .. WHERE outcome='claimed', commit NORMAL.
DispatchRow(c) ==
  LET k == K(c)
      j == [call |-> c, op |-> "dispatch"]
      hit == rows[k].outcome = "claimed"
  IN /\ j \in jobs
     /\ IF hit THEN CommitNormal([rows EXCEPT ![k].outcome = "dispatching"])
               ELSE UNCHANGED ledger
     /\ IF co[c] # "dispatching" THEN jobs' = jobs \ {j} /\ UNCHANGED co
        ELSE IF hit THEN jobs' = jobs \ {j} /\ Goto(c, "ready")
        ELSE /\ Goto(c, "rejecting")
             /\ jobs' = (jobs \ {j}) \cup {[call |-> c, op |-> "rejected"]}
     /\ UNCHANGED <<req, reply, gates, broker, up, crashes, ghosts>>

DispatchFails(c) ==
  LET j == [call |-> c, op |-> "dispatch"]
  IN /\ j \in jobs
     /\ IF co[c] # "dispatching" THEN jobs' = jobs \ {j} /\ UNCHANGED co
        ELSE /\ Goto(c, "rejecting")
             /\ jobs' = (jobs \ {j}) \cup {[call |-> c, op |-> "rejected"]}
     /\ UNCHANGED <<ledger, req, reply, gates, broker, up, crashes, ghosts>>

\* ex.place_order: the adapter refuses locally (risk guard, unknown account,
\* connection never made) or the request leaves.
PlaceOrder(c) ==
  /\ co[c] = "ready"
  /\ sent' = [sent EXCEPT ![K(c)] = @ + 1]
  /\ \/ Finish(c, "rejecting") /\ UNCHANGED wire
     \/ Goto(c, "sending") /\ wire' = wire \cup {c} /\ UNCHANGED jobs
  /\ UNCHANGED <<ledger, req, reply, gates, verdict, taken, up, crashes,
                 expired, past, stranded>>

\* The broker takes or refuses a request, whatever became of its caller.
BrokerDecides(c) ==
  /\ c \in wire /\ wire' = wire \ {c}
  /\ \/ verdict' = [verdict EXCEPT ![c] = "taken"]
        /\ taken' = [taken EXCEPT ![K(c)] = @ + 1]
     \/ verdict' = [verdict EXCEPT ![c] = "refused"] /\ UNCHANGED taken
  /\ UNCHANGED <<ledger, jobs, co, req, reply, gates, up, crashes, ghosts>>

\* Fault: a lost answer counts as a rejection.
BrokerAnswersRejected(c) ==
  /\ co[c] = "sending"
  /\ (verdict[c] = "taken" /\ Finish(c, "accepting")) \/ Finish(c, "rejecting")
  /\ UNCHANGED <<ledger, req, reply, gates, broker, up, crashes, ghosts>>

\* Fault: an answer without an order id counts as an acknowledgement.
BrokerAnswersAccepted(c) ==
  /\ co[c] = "sending"
  /\ (verdict[c] = "refused" /\ Finish(c, "rejecting")) \/ Finish(c, "accepting")
  /\ UNCHANGED <<ledger, req, reply, gates, broker, up, crashes, ghosts>>

\* Fault: the request has no timeout.
BrokerAnswersSomeday(c) ==
  /\ co[c] = "sending"
  /\ \/ verdict[c] = "taken" /\ Finish(c, "accepting")
     \/ verdict[c] = "refused" /\ Finish(c, "rejecting")
  /\ UNCHANGED <<ledger, req, reply, gates, broker, up, crashes, ghosts>>

\* The await of place_order ends.  The adapters' contract: an acknowledgement
\* means taken, a TradovateError refused; a timeout, a gateway error, an
\* unexpected exception or an unusable answer may be either.
BrokerAnswers(c) ==
  /\ co[c] = "sending"
  /\ \/ verdict[c] = "taken" /\ Finish(c, "accepting")
     \/ verdict[c] = "refused" /\ Finish(c, "rejecting")
     \/ Finish(c, "unsure")
  /\ UNCHANGED <<ledger, req, reply, gates, broker, up, crashes, ghosts>>

\* ledger.finish: accepted only over 'dispatching', the others over any open
\* row.  _finish swallows its own failure; only ACCEPTED looks at it.
FinishRow(c, o) ==
  LET k == K(c)
      j == [call |-> c, op |-> o]
      hit == rows[k].outcome \in (IF o = "accepted" THEN {"dispatching"} ELSE Open)
  IN /\ j \in jobs /\ jobs' = jobs \ {j}
     /\ IF hit THEN CommitNormal([rows EXCEPT ![k].outcome = o]) ELSE UNCHANGED ledger
     /\ IF co[c] \in Recording THEN Reply(c, Ending(co[c], hit)) ELSE UNCHANGED <<co, reply>>
     /\ UNCHANGED <<req, gates, broker, up, crashes, ghosts>>

FinishFails(c, o) ==
  /\ [call |-> c, op |-> o] \in jobs
  /\ jobs' = jobs \ {[call |-> c, op |-> o]}
  /\ IF co[c] \in Recording THEN Reply(c, Ending(co[c], FALSE)) ELSE UNCHANGED <<co, reply>>
  /\ stranded' = IF rows[K(c)].outcome \in Open THEN stranded \cup {K(c)} ELSE stranded
  /\ UNCHANGED <<ledger, req, gates, broker, up, crashes, sent, expired, past>>

\* Fault: the owner of a row does not catch CancelledError.
CancelUncaught(c) ==
  /\ co[c] \in Awaiting /\ Reply(c, "cancelled")
  /\ \E mine \in {{}, Awaited(c)} : jobs' = jobs \ mine
  /\ UNCHANGED <<ledger, req, gates, broker, up, crashes, ghosts>>

\* CancelledError at the current await (shutdown, client gone).  A statement
\* still queued is withdrawn from the pool, a running one goes on.
Cancel(c) ==
  /\ co[c] \in Awaiting
  /\ \E mine \in {{}, Awaited(c)} :
       IF co[c] \in Owner
       THEN /\ Goto(c, "interrupted") /\ UNCHANGED <<reply, stranded>>
            /\ jobs' = (jobs \ mine) \cup {[call |-> c, op |-> "unknown"]}
       ELSE /\ Reply(c, "cancelled")
            /\ jobs' = jobs \ mine
            /\ stranded' = IF co[c] \in Recording /\ mine # {} THEN stranded \cup {K(c)} ELSE stranded
  /\ UNCHANGED <<ledger, req, gates, broker, up, crashes, sent, expired, past>>

-----------------------------------------------------------------------------
(* The surroundings: switches, crashes, start-up, retention *)

\* An operator flips the trading switch, a role or an entitlement.
FlipGate ==
  /\ \E g \in Gate : gates' = (gates \ {g}) \cup ({g} \ gates)
  /\ UNCHANGED <<ledger, jobs, co, req, reply, broker, up, crashes, ghosts>>

Down ==
  /\ up /\ crashes < MaxCrash
  /\ up' = FALSE /\ crashes' = crashes + 1
  /\ jobs' = {} /\ stranded' = {}
  /\ co' = [c \in Call |-> IF co[c] \in Awaiting THEN "done" ELSE co[c]]
  /\ reply' = [c \in Call |-> IF co[c] \in Awaiting THEN "lost" ELSE reply[c]]
  /\ UNCHANGED <<req, gates, broker, sent, expired, past>>

\* The process dies; the operating system still holds its commits.
Crash == Down /\ UNCHANGED ledger

\* The machine dies: NORMAL commits since the last FULL one may be gone.
PowerLoss == Down /\ rows' \in older \cup {rows} /\ older' = {}

\* Fault: start-up does not look at incomplete commands.
RestartUnrecovered ==
  /\ ~up /\ up' = TRUE
  /\ UNCHANGED <<ledger, jobs, co, req, reply, gates, broker, crashes, ghosts>>

\* Start-up: recover_incomplete, before requests are accepted.  Its failure is
\* logged and the process starts all the same.
Restart ==
  LET incomplete == {k \in Key : rows[k].outcome \in Open}
  IN /\ ~up /\ up' = TRUE
     /\ \/ /\ incomplete # {}
           /\ CommitFull([k \in Key |-> IF k \in incomplete
                                        THEN [rows[k] EXCEPT !.outcome = "unknown"] ELSE rows[k]])
           /\ UNCHANGED stranded
        \/ incomplete = {} /\ UNCHANGED <<ledger, stranded>>
        \/ stranded' = incomplete /\ UNCHANGED ledger
     /\ UNCHANGED <<jobs, co, req, reply, gates, broker, crashes, sent, expired, past>>

\* prune_commands: a settled row 90 days old is deleted.  Nothing of the key's
\* calls is left by then; their slots are free for later requests.
Prune(k) ==
  LET mine == {c \in Call : K(c) = k}
  IN /\ up /\ rows[k].outcome \in {"accepted", "rejected"}
     /\ expired[k] < MaxPrune
     /\ \A c \in mine : co[c] \in {"new", "done"} /\ c \notin wire
     /\ \A j \in jobs : j.call \notin mine
     /\ CommitFull([rows EXCEPT ![k].outcome = "absent"])
     /\ expired' = [expired EXCEPT ![k] = @ + 1]
     /\ past' = [past EXCEPT ![k] = @ + sent[k]]
     /\ sent' = [sent EXCEPT ![k] = 0]
     /\ taken' = [taken EXCEPT ![k] = 0]
     /\ stranded' = stranded \ {k}
     /\ co' = [c \in Call |-> IF c \in mine THEN "new" ELSE co[c]]
     /\ reply' = [c \in Call |-> IF c \in mine THEN "none" ELSE reply[c]]
     /\ verdict' = [c \in Call |-> IF c \in mine THEN "none" ELSE verdict[c]]
     /\ UNCHANGED <<jobs, req, gates, wire, up, crashes>>

-----------------------------------------------------------------------------

Program(c) ==
  \/ Authorize(c) \/ ClaimRow(c) \/ ClaimFails(c) \/ Check(c) \/ Resolve(c)
  \/ Authorize2(c) \/ Check2(c) \/ DispatchRow(c) \/ DispatchFails(c)
  \/ PlaceOrder(c) \/ BrokerAnswers(c)
  \/ \E o \in Terminal : FinishRow(c, o) \/ FinishFails(c, o)

Next ==
  \/ \E c \in Call : Program(c) \/ Arrive(c) \/ BrokerDecides(c) \/ Cancel(c)
  \/ FlipGate \/ Crash \/ PowerLoss \/ Restart
  \/ \E k \in Key : Prune(k)

Spec == Init /\ [][Next]_vars

\* The event loop and the pool run whatever is ready; a broker call ends, by
\* answer or by timeout.  Cancellation, switches, crashes and retention are not
\* promised to happen; a process that went down is started again.  (A call takes
\* a bounded number of steps, so none needs a promise of its own.)
FairSpec == Spec /\ WF_vars(Restart) /\ WF_vars(\E c \in Call : Program(c))

-----------------------------------------------------------------------------
(* Properties *)

\* However often a client repeats a key, and whatever is cancelled, fails or
\* crashes in between, the adapter is called at most once under a retained
\* command identity (service.py: claim before any broker call, never replay).
AtMostOneSubmission == \A k \in Key : sent[k] <= 1

\* A ledger row that says "rejected", or a client told "rejected", means the
\* broker took no order under that key and never will: "no order sent" is never
\* said of an order that may be live (service.py except-clauses).
RejectedMeansNoOrder ==
  \A k \in Key :
    (rows[k].outcome = "rejected" \/ \E c \in Call : K(c) = k /\ reply[c] = "rejected")
      => taken[k] = 0 /\ \A c \in Call : K(c) = k => c \notin wire /\ co[c] # "ready"

\* "accepted" is only ever written or told when the broker took the order.
AcceptedMeansTaken ==
  \A k \in Key :
    (rows[k].outcome = "accepted" \/ \E c \in Call : K(c) = k /\ reply[c] = "accepted")
      => taken[k] = 1

\* While the process runs, an open row ("in progress" to every replay) belongs
\* to a call that is still working on it, unless a lost statement stranded it:
\* nothing else leaves a key answering "in progress" until the next start.
OpenRowsAreOwned ==
  up => \A k \in Key : rows[k].outcome \in Open =>
          \/ k \in stranded
          \/ \E c \in Call : K(c) = k /\ co[c] \in Owner \cup Recording
          \/ \E j \in jobs : K(j.call) = k /\ j.op \in Terminal

\* What the ledger and the client are told of an order is what the broker did,
\* and "in progress" is only said while somebody works on it.
AnswersAreTrue == RejectedMeansNoOrder /\ AcceptedMeansTaken /\ OpenRowsAreOwned

\* A power loss never brings back a ledger in which a key that reached the
\* broker is free to be claimed again (the claim commits FULL).
ClaimsAreDurable ==
  \A t \in older, k \in Key : t[k].outcome = "absent" <=> rows[k].outcome = "absent"

\* A settled row never changes again: only retention removes it, and only a
\* power loss may take back its commit.
SettledStays ==
  [][\A k \in Key : rows[k].outcome \in Terminal =>
        \/ rows'[k] = rows[k]
        \/ expired'[k] > expired[k]
        \/ crashes' > crashes]_<<rows, expired, crashes>>

\* Every call ends: the client is answered or the process died under it.
CallsEnded == \A c \in Call : co[c] \in {"new", "done"}
EveryCallEnds == <>[]CallsEnded

\* An open row is settled, unless a statement on it was lost (it then waits for
\* a restart).
RowsSettled == \A k \in Key : rows[k].outcome \in Open => k \in stranded
OpenRowsSettle == <>[]RowsSettled

\* docs/COMMERCIAL-FOUNDATION.md: "There is no automatic cleanup of command
\* identities in this slice: expiring a key silently would permit a delayed
\* replay."  Counted across retention, one key submits at most one order.
NoDelayedReplay == \A k \in Key : past[k] + sent[k] <= 1

\* Keys, instructions and calls are interchangeable: TLC explores one state per orbit.
Symmetry == Permutations(Key) \cup Permutations(Intent) \cup Permutations(Call)
=============================================================================
