------------------------- MODULE ManualOrdersProofs -------------------------
(***************************************************************************)
(* What holds of ManualOrders for every set of keys, intents and calls and *)
(* for every number of crashes and expiries: the state is well typed, a    *)
(* retained command identity reaches the broker adapter at most once, and  *)
(* what the ledger and the clients are told is what the broker did.        *)
(*                                                                         *)
(* AtMostOneSubmission is not inductive.  What keeps it is that a row      *)
(* exists, in every ledger image a power loss may bring back, from before  *)
(* the first broker call on (ClaimsAreDurable, AbsentIsUntouched), that    *)
(* only the call that created the row walks to place_order (OneOwner), and *)
(* that it gets there with nothing sent (OwnerHasNotSent).                 *)
(***************************************************************************)
EXTENDS ManualOrders, TLAPS

\* A key without a row has sent nothing and nobody works on it.
AbsentIsUntouched ==
  \A k \in Key : rows[k].outcome = "absent" =>
    /\ sent[k] = 0
    /\ \A c \in Call : co[c] \in Owner => K(c) # k

\* At most one call is on its way to the broker for a key.
OneOwner ==
  \A c, d \in Call : co[c] \in Owner /\ co[d] \in Owner /\ K(c) = K(d) => c = d

\* The owner of a key finds it unsent until it sends itself.
OwnerHasNotSent == \A c \in Call : co[c] \in BeforeSend => sent[K(c)] = 0

IInv == /\ TypeOK
        /\ AtMostOneSubmission
        /\ AbsentIsUntouched
        /\ ClaimsAreDurable
        /\ OneOwner
        /\ OwnerHasNotSent

-----------------------------------------------------------------------------
(* Type correctness *)

USE DEF Open, Terminal, Gate, BeforeSend, Owner, Recording, Awaiting, Answer

\* Handing an outcome to a thread keeps the coroutine, the answers and the
\* pool well typed.
LEMMA FinishType ==
  ASSUME TypeOK, NEW c \in Call, NEW l \in Recording, Finish(c, l)
  PROVE  /\ co' \in [Call -> {"new", "done"} \cup Awaiting]
         /\ jobs' \subseteq Job
BY DEF TypeOK, Finish, Goto, Outcome, Job

\* What a repeated key is answered is one of the answers.
LEMMA ReplayType ==
  ASSUME NEW c \in Call, NEW row \in Row
  PROVE  row.outcome # "absent" => Replay(c, row) \in Answer
BY DEF Replay, Row

\* A row rewritten by a statement is a row.
LEMMA RowUpdateType ==
  ASSUME rows \in [Key -> Row], NEW k \in Key, NEW o \in Open \cup Terminal \cup {"absent"}
  PROVE  /\ [rows EXCEPT ![k].outcome = o] \in [Key -> Row]
         /\ \A i \in Intent : [rows EXCEPT ![k] = [outcome |-> o, intent |-> i]] \in [Key -> Row]
<1>1. rows[k] \in Row
  OBVIOUS
<1>2. [rows[k] EXCEPT !.outcome = o] \in Row
  BY <1>1 DEF Row
<1>3. \A i \in Intent : [outcome |-> o, intent |-> i] \in Row
  BY DEF Row
<1> QED BY <1>2, <1>3

\* Every statement of one call keeps the types.
LEMMA ProgramType ==
  ASSUME TypeOK, NEW c \in Call, Program(c)
  PROVE  TypeOK'
<1> USE DEF ledger, broker, ghosts, Goto, Reply, K
<1>1. CASE Authorize(c)
  <2>1. jobs' \subseteq Job
    BY <1>1 DEF Authorize, TypeOK, Job
  <2>2. co' \in [Call -> {"new", "done"} \cup Awaiting] /\ reply' \in [Call -> Answer]
    BY <1>1 DEF Authorize, TypeOK
  <2> QED BY <1>1, <2>1, <2>2 DEF Authorize, TypeOK
<1>2. CASE ClaimRow(c)
  <2> DEFINE k == K(c)
  <2>1. k \in Key /\ rows[k] \in Row /\ req[c].intent \in Intent
    BY DEF TypeOK
  <2>2. rows' \in [Key -> Row] /\ older' \subseteq [Key -> Row]
    <3>1. [rows EXCEPT ![k] = [outcome |-> "claimed", intent |-> req[c].intent]] \in [Key -> Row]
      BY <2>1, RowUpdateType DEF TypeOK
    <3>2. \/ rows' = [rows EXCEPT ![k] = [outcome |-> "claimed", intent |-> req[c].intent]] /\ older' \subseteq older \cup {rows}
          \/ rows' = rows /\ older' = older
      BY <1>2 DEF ClaimRow, CommitFull
    <3> QED BY <3>1, <3>2 DEF TypeOK
  <2>3. co' \in [Call -> {"new", "done"} \cup Awaiting]
    BY <1>2 DEF ClaimRow, TypeOK
  <2>4. reply' \in [Call -> Answer]
    <3>1. CASE reply' = reply
      BY <3>1 DEF TypeOK
    <3>2. CASE rows[k].outcome # "absent" /\ reply' = [reply EXCEPT ![c] = Replay(c, rows[k])]
      <4>1. Replay(c, rows[k]) \in Answer
        BY <3>2, <2>1, ReplayType
      <4> HIDE DEF Reply, Answer
      <4> QED BY <3>2, <4>1 DEF TypeOK
    <3> QED BY <1>2, <3>1, <3>2 DEF ClaimRow
  <2>5. jobs' \subseteq Job /\ stranded' \subseteq Key
    BY <1>2, <2>1 DEF ClaimRow, TypeOK
  <2> QED BY <1>2, <2>2, <2>3, <2>4, <2>5 DEF ClaimRow, TypeOK
<1>3. CASE ClaimFails(c)
  BY <1>3 DEF ClaimFails, TypeOK
<1>4. CASE Check(c) \/ Resolve(c) \/ Authorize2(c)
  <2> SUFFICES ASSUME NEW from, NEW needs, NEW to \in BeforeSend, Step(c, from, needs, to)
               PROVE  TypeOK'
    BY <1>4 DEF Check, Resolve, Authorize2
  <2>1. co' \in [Call -> {"new", "done"} \cup Awaiting] /\ jobs' \subseteq Job
    BY FinishType DEF Step, TypeOK
  <2> QED BY <2>1 DEF Step, TypeOK
<1>5. CASE Check2(c)
  <2>1. co' \in [Call -> {"new", "done"} \cup Awaiting] /\ jobs' \subseteq Job
    BY <1>5, FinishType DEF Check2, TypeOK, Job
  <2> QED BY <1>5, <2>1 DEF Check2, TypeOK
<1>6. CASE DispatchRow(c)
  <2>1. K(c) \in Key /\ rows[K(c)] \in Row
    BY DEF TypeOK
  <2>2. rows' \in [Key -> Row] /\ older' \subseteq [Key -> Row]
    <3>1. [rows EXCEPT ![K(c)].outcome = "dispatching"] \in [Key -> Row]
      BY <2>1, RowUpdateType DEF TypeOK
    <3>2. \/ rows' = [rows EXCEPT ![K(c)].outcome = "dispatching"] /\ older' \subseteq older \cup {rows}
          \/ rows' = rows /\ older' = older
      BY <1>6 DEF DispatchRow, CommitNormal
    <3> QED BY <3>1, <3>2 DEF TypeOK
  <2>3. co' \in [Call -> {"new", "done"} \cup Awaiting] /\ jobs' \subseteq Job
    BY <1>6 DEF DispatchRow, TypeOK, Job
  <2> QED BY <1>6, <2>2, <2>3 DEF DispatchRow, TypeOK
<1>7. CASE DispatchFails(c)
  BY <1>7 DEF DispatchFails, TypeOK, Job
<1>8. CASE PlaceOrder(c)
  <2>1. co' \in [Call -> {"new", "done"} \cup Awaiting] /\ jobs' \subseteq Job
    BY <1>8, FinishType DEF PlaceOrder, TypeOK
  <2>2. sent' \in [Key -> Nat]
    BY <1>8 DEF PlaceOrder, TypeOK
  <2> QED BY <1>8, <2>1, <2>2 DEF PlaceOrder, TypeOK
<1>9. CASE BrokerAnswers(c)
  <2>1. co' \in [Call -> {"new", "done"} \cup Awaiting] /\ jobs' \subseteq Job
    BY <1>9, FinishType DEF BrokerAnswers, TypeOK
  <2> QED BY <1>9, <2>1 DEF BrokerAnswers, TypeOK
<1>10. ASSUME NEW o \in Terminal, FinishRow(c, o)
       PROVE  TypeOK'
  <2>1. K(c) \in Key /\ rows[K(c)] \in Row
    BY DEF TypeOK
  <2>2. rows' \in [Key -> Row] /\ older' \subseteq [Key -> Row]
    <3>1. [rows EXCEPT ![K(c)].outcome = o] \in [Key -> Row]
      BY <2>1, RowUpdateType DEF TypeOK
    <3>2. \/ rows' = [rows EXCEPT ![K(c)].outcome = o] /\ older' \subseteq older \cup {rows}
          \/ rows' = rows /\ older' = older
      BY <1>10 DEF FinishRow, CommitNormal
    <3> QED BY <3>1, <3>2 DEF TypeOK
  <2>3. co' \in [Call -> {"new", "done"} \cup Awaiting] /\ reply' \in [Call -> Answer]
    BY <1>10 DEF FinishRow, TypeOK, Ending
  <2> QED BY <1>10, <2>2, <2>3 DEF FinishRow, TypeOK
<1>11. ASSUME NEW o \in Terminal, FinishFails(c, o)
       PROVE  TypeOK'
  <2>1. co' \in [Call -> {"new", "done"} \cup Awaiting] /\ reply' \in [Call -> Answer]
    BY <1>11 DEF FinishFails, TypeOK, Ending
  <2> QED BY <1>11, <2>1 DEF FinishFails, TypeOK
<1> QED
  BY <1>1, <1>2, <1>3, <1>4, <1>5, <1>6, <1>7, <1>8, <1>9, <1>10, <1>11 DEF Program

\* Every step keeps the types.
LEMMA NextType ==
  ASSUME TypeOK, [Next]_vars
  PROVE  TypeOK'
<1> USE DEF ledger, broker, ghosts, Goto, Reply, K
<1>1. ASSUME NEW c \in Call, Program(c)
      PROVE  TypeOK'
  BY <1>1, ProgramType
<1>2. ASSUME NEW c \in Call, Arrive(c)
      PROVE  TypeOK'
  <2>1. req' \in [Call -> [key: Key, intent: Intent]]
    BY <1>2 DEF Arrive, TypeOK
  <2> QED BY <1>2, <2>1 DEF Arrive, TypeOK
<1>3. ASSUME NEW c \in Call, BrokerDecides(c)
      PROVE  TypeOK'
  <2>1. taken' \in [Key -> Nat] /\ verdict' \in [Call -> {"none", "taken", "refused"}]
    <3>1. taken' \in {taken, [taken EXCEPT ![K(c)] = @ + 1]}
      BY <1>3 DEF BrokerDecides
    <3>2. \E v \in {"taken", "refused"} : verdict' = [verdict EXCEPT ![c] = v]
      BY <1>3 DEF BrokerDecides
    <3> QED BY <3>1, <3>2 DEF TypeOK
  <2> QED BY <1>3, <2>1 DEF BrokerDecides, TypeOK
<1>4. ASSUME NEW c \in Call, Cancel(c)
      PROVE  TypeOK'
  <2>1. co' \in [Call -> {"new", "done"} \cup Awaiting] /\ reply' \in [Call -> Answer]
    BY <1>4 DEF Cancel, TypeOK
  <2>2. jobs' \subseteq Job
    <3>1. PICK mine \in {{}, Awaited(c)} :
            jobs' \in {jobs \ mine, (jobs \ mine) \cup {[call |-> c, op |-> "unknown"]}}
      BY <1>4 DEF Cancel
    <3> QED BY <3>1 DEF TypeOK, Job
  <2>3. stranded' \subseteq Key
    BY <1>4 DEF Cancel, TypeOK
  <2> QED BY <1>4, <2>1, <2>2, <2>3 DEF Cancel, TypeOK
<1>5. CASE FlipGate
  BY <1>5 DEF FlipGate, TypeOK
<1>6. CASE Crash \/ PowerLoss
  <2>1. co' \in [Call -> {"new", "done"} \cup Awaiting] /\ reply' \in [Call -> Answer]
    BY <1>6 DEF Crash, PowerLoss, Down, TypeOK
  <2>2. rows' \in older \cup {rows} /\ older' \subseteq older
    BY <1>6 DEF Crash, PowerLoss
  <2>3. rows' \in [Key -> Row] /\ older' \subseteq [Key -> Row]
    BY <2>2 DEF TypeOK
  <2>4. /\ crashes' = crashes + 1 /\ up' = FALSE /\ jobs' = {} /\ stranded' = {}
        /\ UNCHANGED <<req, gates, wire, verdict, taken, sent, expired, past>>
    BY <1>6 DEF Crash, PowerLoss, Down
  <2>5. up' \in BOOLEAN /\ jobs' \subseteq Job /\ stranded' \subseteq Key
    BY <2>4
  <2>6. crashes' \in Nat
    <3>1. crashes \in Nat
      BY DEF TypeOK
    <3> QED BY <2>4, <3>1
  <2>7. /\ req' \in [Call -> [key: Key, intent: Intent]] /\ gates' \subseteq Gate
        /\ wire' \subseteq Call /\ verdict' \in [Call -> {"none", "taken", "refused"}]
        /\ sent' \in [Key -> Nat] /\ taken' \in [Key -> Nat]
        /\ expired' \in [Key -> Nat] /\ past' \in [Key -> Nat]
    BY <2>4 DEF TypeOK
  <2> HIDE DEF Awaiting, Answer, Gate
  <2> QED BY <2>1, <2>3, <2>5, <2>6, <2>7 DEF TypeOK
<1>7. CASE Restart
  <2>1. \A k \in Key : [rows[k] EXCEPT !.outcome = "unknown"] \in Row
    <3> TAKE k \in Key
    <3>1. rows[k] \in Row
      BY DEF TypeOK
    <3> QED BY <3>1 DEF Row
  <2>2. rows' \in [Key -> Row] /\ older' \subseteq [Key -> Row]
    BY <1>7, <2>1 DEF Restart, CommitFull, TypeOK
  <2> QED BY <1>7, <2>2 DEF Restart, TypeOK
<1>8. ASSUME NEW k \in Key, Prune(k)
      PROVE  TypeOK'
  <2>1. rows' \in [Key -> Row] /\ older' \subseteq [Key -> Row]
    BY <1>8, RowUpdateType DEF Prune, CommitFull, TypeOK
  <2>2. /\ sent' \in [Key -> Nat] /\ taken' \in [Key -> Nat]
        /\ expired' \in [Key -> Nat] /\ past' \in [Key -> Nat]
    BY <1>8 DEF Prune, TypeOK
  <2>3. /\ co' \in [Call -> {"new", "done"} \cup Awaiting]
        /\ reply' \in [Call -> Answer]
        /\ verdict' \in [Call -> {"none", "taken", "refused"}]
    BY <1>8 DEF Prune, TypeOK
  <2> QED BY <1>8, <2>1, <2>2, <2>3 DEF Prune, TypeOK
<1>9. CASE UNCHANGED vars
  BY <1>9 DEF vars, TypeOK
<1> QED
  BY <1>1, <1>2, <1>3, <1>4, <1>5, <1>6, <1>7, <1>8, <1>9 DEF Next

\* The initial state is well typed.
LEMMA InitType == Init => TypeOK
BY DEF Init, TypeOK, Row

\* Every reachable state is well typed, for every number of keys, calls,
\* crashes and expiries.
THEOREM TypeCorrect == Spec => []TypeOK
<1>1. TypeOK /\ [Next]_vars => TypeOK'
  BY NextType
<1> QED BY InitType, <1>1, PTL DEF Spec

-----------------------------------------------------------------------------
(* At most one submission *)

\* A step that creates or deletes no row, sends nothing and gives no key a new
\* owner keeps the invariant, whatever else it does.
LEMMA QuietStep ==
  ASSUME IInv, TypeOK',
         \A k \in Key : rows'[k].outcome = "absent" <=> rows[k].outcome = "absent",
         older' \subseteq older \cup {rows},
         sent' = sent,
         \A c \in Call : co'[c] \in Owner => co[c] \in Owner /\ req'[c] = req[c],
         \A c \in Call : co'[c] \in BeforeSend => co[c] \in BeforeSend
  PROVE  IInv'
<1> HIDE DEF Owner, BeforeSend
<1>1. BeforeSend \subseteq Owner
  BY DEF BeforeSend, Owner
<1>2. AtMostOneSubmission'
  BY DEF IInv, AtMostOneSubmission
<1>3. AbsentIsUntouched'
  BY DEF IInv, AbsentIsUntouched, K
<1>4. ClaimsAreDurable'
  BY DEF IInv, ClaimsAreDurable
<1>5. OneOwner'
  BY DEF IInv, OneOwner, K
<1>6. OwnerHasNotSent'
  BY <1>1 DEF IInv, OwnerHasNotSent, K
<1> QED BY <1>2, <1>3, <1>4, <1>5, <1>6 DEF IInv

\* The claim gives a key its row and its only owner.
LEMMA ClaimKeeps ==
  ASSUME IInv, TypeOK', NEW c \in Call, ClaimRow(c)
  PROVE  IInv'
<1> DEFINE k == K(c)
<1> USE DEF ledger, broker, ghosts, Goto, Reply
<1>0. k \in Key /\ TypeOK
  BY DEF K, IInv, TypeOK
<1>1. CASE rows[k].outcome # "absent"
  <2>1. rows' = rows /\ older' = older /\ sent' = sent /\ req' = req
    BY <1>1 DEF ClaimRow
  <2>2. \A d \in Call : co'[d] \in Owner => co'[d] = co[d]
    BY <1>0, <1>1 DEF ClaimRow, TypeOK
  <2> QED BY <2>1, <2>2, QuietStep
<1>2. CASE rows[k].outcome = "absent"
  <2>1. /\ rows' = [rows EXCEPT ![k] = [outcome |-> "claimed", intent |-> req[c].intent]]
        /\ older' = {} /\ sent' = sent /\ req' = req
    BY <1>2 DEF ClaimRow, CommitFull
  <2>2. \A j \in Key : rows'[j].outcome = "absent" => j # k /\ rows[j].outcome = "absent"
    BY <1>0, <2>1 DEF TypeOK
  <2>3. \A d \in Call : co'[d] \in Owner => \/ d = c /\ co'[d] = "check"
                                            \/ co'[d] = co[d]
    BY <1>0, <1>2 DEF ClaimRow, TypeOK
  <2>4. \A d \in Call : co[d] \in Owner => K(d) # k
    BY <1>0, <1>2 DEF IInv, AbsentIsUntouched
  <2>5. \A d \in Call : K(d)' = K(d)
    BY <2>1 DEF K
  <2>6. AtMostOneSubmission'
    BY <2>1 DEF IInv, AtMostOneSubmission
  <2>7. AbsentIsUntouched'
    BY <2>1, <2>2, <2>3, <2>5 DEF IInv, AbsentIsUntouched
  <2>8. ClaimsAreDurable'
    BY <2>1 DEF ClaimsAreDurable
  <2>9. OneOwner'
    BY <2>3, <2>4, <2>5 DEF IInv, OneOwner
  <2>10. OwnerHasNotSent'
    BY <1>0, <1>2, <2>1, <2>3, <2>5 DEF IInv, OwnerHasNotSent, AbsentIsUntouched
  <2> QED BY <2>6, <2>7, <2>8, <2>9, <2>10 DEF IInv
<1> QED BY <1>1, <1>2

\* The owner sends once and is then no longer before its send.
LEMMA PlaceKeeps ==
  ASSUME IInv, TypeOK', NEW c \in Call, PlaceOrder(c)
  PROVE  IInv'
<1> USE DEF ledger, broker, ghosts, Goto
<1>0. TypeOK /\ K(c) \in Key
  BY DEF K, IInv, TypeOK
<1>1. /\ rows' = rows /\ older' = older /\ req' = req
      /\ sent' = [sent EXCEPT ![K(c)] = @ + 1]
  BY DEF PlaceOrder
<1>2. sent[K(c)] = 0 /\ co[c] \in Owner
  BY DEF IInv, OwnerHasNotSent, PlaceOrder
<1>3. \A d \in Call : co'[d] \in Owner => co[d] \in Owner
  BY <1>0 DEF PlaceOrder, Finish, TypeOK
<1>4. \A d \in Call : co'[d] \in BeforeSend => d # c /\ co[d] \in BeforeSend
  BY <1>0 DEF PlaceOrder, Finish, TypeOK
<1>5. \A d \in Call : K(d)' = K(d) /\ K(d) \in Key
  BY <1>0, <1>1 DEF K, TypeOK
<1>6. AtMostOneSubmission'
  BY <1>0, <1>1, <1>2 DEF IInv, AtMostOneSubmission, TypeOK
<1>7. AbsentIsUntouched'
  BY <1>0, <1>1, <1>2, <1>3, <1>5 DEF IInv, AbsentIsUntouched, TypeOK
<1>8. ClaimsAreDurable'
  BY <1>1 DEF IInv, ClaimsAreDurable
<1>9. OneOwner'
  BY <1>3, <1>5 DEF IInv, OneOwner
<1>10. OwnerHasNotSent'
  <2> SUFFICES ASSUME NEW d \in Call, co'[d] \in BeforeSend
               PROVE  sent'[K(d)] = 0
    BY <1>5 DEF OwnerHasNotSent
  <2>1. d # c /\ co[d] \in BeforeSend
    BY <1>4
  <2>2. K(d) # K(c)
    BY <2>1, <1>2 DEF IInv, OneOwner
  <2> QED BY <1>0, <1>1, <1>5, <2>1, <2>2 DEF IInv, OwnerHasNotSent, TypeOK
<1> QED BY <1>6, <1>7, <1>8, <1>9, <1>10 DEF IInv

\* Retention deletes a row nobody works on, and its history with it.
LEMMA PruneKeeps ==
  ASSUME IInv, TypeOK', NEW k \in Key, Prune(k)
  PROVE  IInv'
<1>0. TypeOK
  BY DEF IInv
<1>1. /\ rows' = [rows EXCEPT ![k].outcome = "absent"] /\ older' = {} /\ req' = req
      /\ sent' = [sent EXCEPT ![k] = 0]
  BY DEF Prune, CommitFull
<1>2. \A j \in Key : j # k => rows'[j] = rows[j] /\ sent'[j] = sent[j]
  BY <1>0, <1>1 DEF TypeOK
<1>3. sent'[k] = 0
  BY <1>0, <1>1 DEF TypeOK
<1>4. \A d \in Call : co'[d] \in Owner => K(d) # k /\ co'[d] = co[d]
  BY <1>0 DEF Prune, TypeOK
<1>5. \A d \in Call : K(d)' = K(d) /\ K(d) \in Key
  BY <1>0, <1>1 DEF K, TypeOK
<1>6. AtMostOneSubmission'
  BY <1>2, <1>3 DEF IInv, AtMostOneSubmission
<1>7. AbsentIsUntouched'
  BY <1>2, <1>3, <1>4, <1>5 DEF IInv, AbsentIsUntouched
<1>8. ClaimsAreDurable'
  BY <1>1 DEF ClaimsAreDurable
<1>9. OneOwner'
  BY <1>4, <1>5 DEF IInv, OneOwner
<1>10. OwnerHasNotSent'
  BY <1>2, <1>4, <1>5 DEF IInv, OwnerHasNotSent
<1> QED BY <1>6, <1>7, <1>8, <1>9, <1>10 DEF IInv

\* Every other statement of a call is quiet.
LEMMA ProgramKeeps ==
  ASSUME IInv, TypeOK', NEW c \in Call, Program(c)
  PROVE  IInv'
<1> USE DEF ledger, broker, ghosts, Goto, Reply
<1>0. TypeOK /\ K(c) \in Key
  BY DEF K, IInv, TypeOK
<1>1. CASE Authorize(c) \/ ClaimFails(c)
  <2>1. rows' = rows /\ older' = older /\ sent' = sent /\ req' = req
    BY <1>1 DEF Authorize, ClaimFails
  <2>2. \A d \in Call : co'[d] \in Owner => co'[d] = co[d]
    BY <1>0, <1>1 DEF Authorize, ClaimFails, TypeOK
  <2> QED BY <2>1, <2>2, QuietStep
<1>2. CASE Check(c) \/ Resolve(c) \/ Authorize2(c)
  <2> SUFFICES ASSUME NEW from \in BeforeSend, NEW needs, NEW to \in BeforeSend,
                      Step(c, from, needs, to)
               PROVE  IInv'
    BY <1>2 DEF Check, Resolve, Authorize2
  <2>1. rows' = rows /\ older' = older /\ sent' = sent /\ req' = req
    BY DEF Step
  <2>2. \A d \in Call : co'[d] = co[d] \/ co[d] \in BeforeSend
    BY <1>0 DEF Step, Finish, TypeOK
  <2> QED BY <2>1, <2>2, QuietStep
<1>3. CASE Check2(c) \/ BrokerAnswers(c)
  <2>1. rows' = rows /\ older' = older /\ sent' = sent /\ req' = req
    BY <1>3 DEF Check2, BrokerAnswers
  <2>2. \A d \in Call : co'[d] = co[d] \/ co[d] \in BeforeSend \/ co'[d] \in Recording
    BY <1>0, <1>3 DEF Check2, BrokerAnswers, Finish, TypeOK
  <2> QED BY <2>1, <2>2, QuietStep
<1>4. CASE DispatchRow(c) \/ DispatchFails(c)
  <2>1. sent' = sent /\ req' = req /\ older' \subseteq older \cup {rows}
    BY <1>4 DEF DispatchRow, DispatchFails, CommitNormal
  <2>2. \/ rows' = rows
        \/ rows[K(c)].outcome = "claimed" /\ rows' = [rows EXCEPT ![K(c)].outcome = "dispatching"]
    BY <1>4 DEF DispatchRow, DispatchFails, CommitNormal
  <2>3. \A k \in Key : rows'[k].outcome = "absent" <=> rows[k].outcome = "absent"
    BY <1>0, <2>2 DEF TypeOK, Row
  <2>4. \A d \in Call : co'[d] = co[d] \/ co[d] = "dispatching"
    BY <1>0, <1>4 DEF DispatchRow, DispatchFails, TypeOK
  <2> QED BY <2>1, <2>3, <2>4, QuietStep
<1>5. ASSUME NEW o \in Terminal, FinishRow(c, o) \/ FinishFails(c, o)
      PROVE  IInv'
  <2>1. sent' = sent /\ req' = req /\ older' \subseteq older \cup {rows}
    BY <1>5 DEF FinishRow, FinishFails, CommitNormal
  <2>2. \/ rows' = rows
        \/ rows[K(c)].outcome \in Open /\ rows' = [rows EXCEPT ![K(c)].outcome = o]
    BY <1>5 DEF FinishRow, FinishFails, CommitNormal
  <2>3. \A k \in Key : rows'[k].outcome = "absent" <=> rows[k].outcome = "absent"
    BY <1>0, <2>2 DEF TypeOK, Row
  <2>4. co' \in {co, [co EXCEPT ![c] = "done"]}
    BY <1>5 DEF FinishRow, FinishFails
  <2>5. \A d \in Call : co'[d] = co[d] \/ co'[d] = "done"
    BY <1>0, <2>4 DEF TypeOK
  <2> QED BY <2>1, <2>3, <2>5, QuietStep
<1> QED
  BY <1>1, <1>2, <1>3, <1>4, <1>5, ClaimKeeps, PlaceKeeps DEF Program

\* Every step keeps the invariant.
LEMMA NextKeeps ==
  ASSUME IInv, [Next]_vars
  PROVE  IInv'
<1> USE DEF ledger, broker, ghosts, Goto, Reply
<1>0. TypeOK /\ TypeOK'
  BY NextType DEF IInv
<1>1. ASSUME NEW c \in Call, Program(c)
      PROVE  IInv'
  BY <1>0, <1>1, ProgramKeeps
<1>2. ASSUME NEW c \in Call, Arrive(c) \/ BrokerDecides(c) \/ Cancel(c)
      PROVE  IInv'
  <2>1. rows' = rows /\ older' = older /\ sent' = sent
    BY <1>2 DEF Arrive, BrokerDecides, Cancel
  <2>2. \A d \in Call : co'[d] \in Owner => co'[d] = co[d] /\ req'[d] = req[d]
    BY <1>0, <1>2 DEF Arrive, BrokerDecides, Cancel, TypeOK
  <2> QED BY <1>0, <2>1, <2>2, QuietStep
<1>3. CASE FlipGate \/ UNCHANGED vars
  <2>1. rows' = rows /\ older' = older /\ sent' = sent /\ req' = req /\ co' = co
    BY <1>3 DEF FlipGate, vars
  <2> QED BY <1>0, <2>1, QuietStep
<1>4. CASE Crash \/ PowerLoss
  <2>1. sent' = sent /\ req' = req /\ rows' \in older \cup {rows} /\ older' \subseteq older
    BY <1>4 DEF Crash, PowerLoss, Down
  <2>2. \A k \in Key : rows'[k].outcome = "absent" <=> rows[k].outcome = "absent"
    BY <2>1 DEF IInv, ClaimsAreDurable
  <2>3. \A d \in Call : co'[d] \notin Owner
    BY <1>0, <1>4 DEF Crash, PowerLoss, Down, TypeOK
  <2> QED BY <1>0, <2>1, <2>2, <2>3, QuietStep
<1>5. CASE Restart
  <2>1. sent' = sent /\ req' = req /\ co' = co /\ older' \subseteq older
    BY <1>5 DEF Restart, CommitFull
  <2>2. \A k \in Key : \/ rows'[k] = rows[k]
                       \/ rows[k].outcome \in Open /\ rows'[k] = [rows[k] EXCEPT !.outcome = "unknown"]
    BY <1>0, <1>5 DEF Restart, CommitFull, TypeOK
  <2>3. \A k \in Key : rows'[k].outcome = "absent" <=> rows[k].outcome = "absent"
    <3> TAKE k \in Key
    <3>1. rows[k] \in Row
      BY <1>0 DEF TypeOK
    <3>2. CASE rows'[k] = rows[k]
      BY <3>2
    <3>3. CASE rows[k].outcome \in Open /\ rows'[k] = [rows[k] EXCEPT !.outcome = "unknown"]
      BY <3>1, <3>3 DEF Row
    <3> QED BY <2>2, <3>2, <3>3
  <2> QED BY <1>0, <2>1, <2>3, QuietStep
<1>6. ASSUME NEW k \in Key, Prune(k)
      PROVE  IInv'
  BY <1>0, <1>6, PruneKeeps
<1> QED
  BY <1>1, <1>2, <1>3, <1>4, <1>5, <1>6 DEF Next

\* The initial state satisfies the invariant: nothing is claimed or sent.
LEMMA InitKeeps == Init => IInv
<1> SUFFICES ASSUME Init PROVE IInv
  OBVIOUS
<1>1. TypeOK
  BY InitType
<1>2. AtMostOneSubmission /\ AbsentIsUntouched /\ ClaimsAreDurable /\ OneOwner /\ OwnerHasNotSent
  BY <1>1 DEF Init, AtMostOneSubmission, AbsentIsUntouched, ClaimsAreDurable, OneOwner,
              OwnerHasNotSent, TypeOK, K
<1> QED BY <1>1, <1>2 DEF IInv

\* The invariant holds in every reachable state.
THEOREM InvariantCorrect == Spec => []IInv
<1>1. IInv /\ [Next]_vars => IInv'
  BY NextKeeps
<1> QED BY InitKeeps, <1>1, PTL DEF Spec

\* Under a retained command identity the adapter is called at most once:
\* whatever number of clients repeat the key, statements fail, calls are
\* cancelled and machines lose power (service.py, "claim before any broker
\* mutation").
THEOREM SubmittedAtMostOnce == Spec => []AtMostOneSubmission
<1>1. IInv => AtMostOneSubmission
  BY DEF IInv
<1> QED BY InvariantCorrect, <1>1, PTL

\* No power loss frees a claimed key: every ledger image the disk may still
\* hold has exactly the rows the process sees (db/execution.py, _connection).
THEOREM ClaimsSurvive == Spec => []ClaimsAreDurable
<1>1. IInv => ClaimsAreDurable
  BY DEF IInv
<1> QED BY InvariantCorrect, <1>1, PTL

-----------------------------------------------------------------------------
(* Settled rows stay *)

\* A statement rewrites a row only while it is absent or open.
LEMMA ProgramSettled ==
  ASSUME TypeOK, NEW c \in Call, Program(c), NEW k \in Key, rows[k].outcome \in Terminal
  PROVE  rows'[k] = rows[k]
<1> USE DEF ledger
<1>1. CASE ClaimRow(c)
  BY <1>1 DEF ClaimRow, CommitFull, TypeOK
<1>2. CASE DispatchRow(c)
  BY <1>2 DEF DispatchRow, CommitNormal, TypeOK
<1>3. ASSUME NEW o \in Terminal, FinishRow(c, o)
      PROVE  rows'[k] = rows[k]
  BY <1>3 DEF FinishRow, CommitNormal, TypeOK
<1>4. \/ ClaimRow(c) \/ DispatchRow(c) \/ (\E o \in Terminal : FinishRow(c, o))
      \/ rows' = rows
  BY DEF Program, Authorize, ClaimFails, Check, Resolve, Authorize2, Step, Check2,
         DispatchFails, PlaceOrder, BrokerAnswers, FinishFails
<1> QED BY <1>1, <1>2, <1>3, <1>4

\* What a step may do to a settled row.
LEMMA NextSettled ==
  ASSUME TypeOK, [Next]_vars, NEW k \in Key, rows[k].outcome \in Terminal
  PROVE  rows'[k] = rows[k] \/ expired'[k] > expired[k] \/ crashes' > crashes
<1> USE DEF ledger
<1>1. ASSUME NEW c \in Call, Program(c)
      PROVE  rows'[k] = rows[k]
  BY <1>1, ProgramSettled
<1>2. CASE (\E c \in Call : Arrive(c) \/ BrokerDecides(c) \/ Cancel(c)) \/ FlipGate \/ UNCHANGED vars
  BY <1>2 DEF Arrive, BrokerDecides, Cancel, FlipGate, vars
<1>3. CASE Crash \/ PowerLoss
  BY <1>3 DEF Crash, PowerLoss, Down, TypeOK
<1>4. CASE Restart
  BY <1>4 DEF Restart, CommitFull, TypeOK
<1>5. ASSUME NEW j \in Key, Prune(j)
      PROVE  rows'[k] = rows[k] \/ expired'[k] > expired[k]
  BY <1>5 DEF Prune, CommitFull, TypeOK
<1> QED BY <1>1, <1>2, <1>3, <1>4, <1>5 DEF Next

\* A settled outcome is final: no late, abandoned or repeated statement and no
\* restart rewrites it; only retention and a power loss touch it
\* (db/execution.py: the WHERE clauses of dispatch, finish and recovery).
THEOREM SettledForGood == Spec => SettledStays
<1>1. TypeOK /\ [Next]_vars =>
        [\A k \in Key : rows[k].outcome \in Terminal =>
           \/ rows'[k] = rows[k]
           \/ expired'[k] > expired[k]
           \/ crashes' > crashes]_<<rows, expired, crashes>>
  BY NextSettled
<1> QED BY TypeCorrect, <1>1, PTL DEF Spec, SettledStays

-----------------------------------------------------------------------------
(***************************************************************************)
(* What the ledger and the clients are told of a manual order is what the  *)
(* broker did, for every set of keys, intents and calls.                   *)
(*                                                                         *)
(* AnswersAreTrue is far from inductive: an outcome is decided, queued as  *)
(* a statement, recorded and told in four steps, which other calls, lost   *)
(* statements, cancellations and power losses come between.  The invariant *)
(* below says so of every stage at once: who "says" an outcome (a row, an  *)
(* older image of it, a reply, a call about to record it, a statement in   *)
(* the pool) says what holds, of the wire and of the broker's book; at     *)
(* most one call of a key is ever engaged with the broker; and a statement *)
(* in the pool is the one its call awaits.                                 *)
(***************************************************************************)

\* The call has claimed its key's row, so far as the broker can tell.
Engaged(c) == co[c] \in Owner \/ c \in wire \/ verdict[c] # "none"

\* A request that has not arrived has left no trace.
NewIsFresh ==
  \A c \in Call : co[c] \in {"new", "authorize"} =>
    /\ c \notin wire /\ verdict[c] = "none" /\ reply[c] = "none"
    /\ \A j \in jobs : j.call # c

\* Of the calls of one key at most one has got to the broker or is on its way.
OneEngaged == \A c, d \in Call : Engaged(c) /\ Engaged(d) /\ K(c) = K(d) => c = d

\* A key without a row: nobody works on it, writes it or was told of a rejection.
AbsentIsQuiet ==
  \A c \in Call : rows[K(c)].outcome = "absent" =>
    /\ ~Engaged(c) /\ co[c] \notin Recording /\ reply[c] # "rejected"
    /\ \A j \in jobs : j.call = c => j.op \notin Terminal

\* The broker has not decided a request on its way, and gets none before its time.
WireIsOpen ==
  \A c \in Call :
    /\ c \in wire => verdict[c] = "none" /\ co[c] \notin BeforeSend
    /\ co[c] \in BeforeSend => verdict[c] = "none"

\* The broker took what its verdicts say.
TakenIsDecided ==
  /\ \A c \in Call : verdict[c] = "taken" => taken[K(c)] = 1
  /\ \A k \in Key : taken[k] # 0 => \E c \in Call : K(c) = k /\ verdict[c] = "taken"

\* Somebody says, or is about to say, that the key's order was rejected; accepted.
Says(k, outcome, recording) ==
  \/ rows[k].outcome = outcome
  \/ \E t \in older : t[k].outcome = outcome
  \/ \E c \in Call : K(c) = k /\ (reply[c] = outcome \/ co[c] = recording)
  \/ \E j \in jobs : K(j.call) = k /\ j.op = outcome

\* No order was taken under the key, and none can be any more.
Refused(k) ==
  taken[k] = 0 /\ \A c \in Call : K(c) = k => c \notin wire /\ co[c] \notin BeforeSend

RejectedIsSafe == \A k \in Key : Says(k, "rejected", "rejecting") => Refused(k)
AcceptedIsSafe == \A k \in Key : Says(k, "accepted", "accepting") => taken[k] = 1

\* Who has got past the dispatch statement, or has to record its acceptance, works
\* on a row that says so.
ReadyIsDispatched ==
  /\ \A c \in Call : co[c] \in {"ready", "sending", "accepting"} => rows[K(c)].outcome # "claimed"
  /\ \A j \in jobs : j.op = "accepted" => rows[K(j.call)].outcome # "claimed"

\* A call that awaits the statement of its outcome has one, and no other; an owner
\* has none yet.
OutcomeIsUnderway ==
  /\ \A c \in Call : co[c] \in Recording => [call |-> c, op |-> Outcome(co[c])] \in jobs
  /\ \A j \in jobs : j.op \in Terminal =>
       co[j.call] \notin Owner /\ (co[j.call] \in Recording => j.op = Outcome(co[j.call]))

AInv == /\ IInv
        /\ NewIsFresh /\ OneEngaged /\ AbsentIsQuiet /\ WireIsOpen /\ TakenIsDecided
        /\ RejectedIsSafe /\ AcceptedIsSafe /\ ReadyIsDispatched /\ OutcomeIsUnderway
        /\ OpenRowsAreOwned

USE DEF Open, Terminal, Gate, BeforeSend, Owner, Recording, Awaiting, Answer

\* The statement each recording state awaits.
LEMMA OutcomeIs ==
  /\ Outcome("accepting") = "accepted" /\ Outcome("rejecting") = "rejected"
  /\ Outcome("unsure") = "unknown" /\ Outcome("interrupted") = "unknown"
BY DEF Outcome

\* A repeated key is told its row, or that it is in progress or a conflict.
LEMMA ReplayTells ==
  ASSUME NEW c \in Call, NEW row
  PROVE  Replay(c, row) \in {"conflict", "in_progress", row.outcome}
BY DEF Replay

\* What recovery does to each row: an incomplete one becomes unknown.
LEMMA RowsRecovered ==
  ASSUME TypeOK, NEW incomplete,
         rows' = [k \in Key |-> IF k \in incomplete THEN [rows[k] EXCEPT !.outcome = "unknown"]
                                                   ELSE rows[k]]
  PROVE  \A k \in Key : \/ rows'[k] = rows[k]
                        \/ k \in incomplete /\ rows'[k].outcome = "unknown"
<1> TAKE k \in Key
<1>1. rows[k] \in Row
  BY DEF TypeOK
<1>2. CASE k \in incomplete
  <2>1. rows'[k] = [rows[k] EXCEPT !.outcome = "unknown"]
    BY <1>2
  <2> QED BY <1>1, <1>2, <2>1 DEF Row
<1>3. CASE k \notin incomplete
  BY <1>3
<1> QED BY <1>2, <1>3

\* While a call is engaged and its order not taken, none of its key's orders is,
\* and no other call of the key can get one taken.
LEMMA AloneUntaken ==
  ASSUME AInv, NEW c \in Call, Engaged(c), verdict[c] # "taken"
  PROVE  /\ taken[K(c)] = 0
         /\ \A d \in Call : K(d) = K(c) /\ d # c => d \notin wire /\ co[d] \notin Owner
<1>1. K(c) \in Key
  BY DEF AInv, IInv, TypeOK, K
<1>2. \A d \in Call : Engaged(d) /\ K(d) = K(c) => d = c
  BY DEF AInv, OneEngaged
<1>3. \A d \in Call : verdict[d] = "taken" => Engaged(d)
  BY DEF Engaged
<1> QED BY <1>1, <1>2, <1>3 DEF AInv, TakenIsDecided, Engaged

\* An open row keeps its owner if each owner stays, hands its row on, or closes
\* or strands it.
LEMMA OwnedStays ==
  ASSUME OpenRowsAreOwned, up' => up, jobs \subseteq Job,
         \A k \in Key : rows'[k].outcome \in Open =>
            rows[k].outcome \in Open /\ (k \in stranded => k \in stranded'),
         \A d \in Call : co[d] \in Owner \cup Recording =>
            \/ co'[d] \in Owner \cup Recording /\ K(d)' = K(d)
            \/ rows'[K(d)].outcome \notin Open \/ K(d) \in stranded',
         \A j \in jobs : j.op \in Terminal =>
            \/ j \in jobs' /\ K(j.call)' = K(j.call)
            \/ rows'[K(j.call)].outcome \notin Open \/ K(j.call) \in stranded'
  PROVE  OpenRowsAreOwned'
<1> SUFFICES ASSUME up', NEW k \in Key, rows'[k].outcome \in Open
             PROVE  \/ k \in stranded'
                    \/ \E c \in Call : K(c)' = k /\ co'[c] \in Owner \cup Recording
                    \/ \E j \in jobs' : K(j.call)' = k /\ j.op \in Terminal
  BY DEF OpenRowsAreOwned
<1>1. CASE k \in stranded
  BY <1>1
<1>2. CASE \E c \in Call : K(c) = k /\ co[c] \in Owner \cup Recording
  BY <1>2
<1>3. CASE \E j \in jobs : K(j.call) = k /\ j.op \in Terminal
  BY <1>3 DEF Job
<1> QED BY <1>1, <1>2, <1>3 DEF OpenRowsAreOwned

\* A step of one call keeps outcomes under way if that call awaits the statement
\* it has, and leaves the statements of the others.
LEMMA UnderwayStays ==
  ASSUME OutcomeIsUnderway, NEW c \in Call, jobs \subseteq Job, jobs' \subseteq Job,
         \A d \in Call : d # c => co'[d] = co[d],
         \A j \in jobs : j.call # c /\ j.op \in Terminal => j \in jobs',
         \A j \in jobs' : j.op \in Terminal =>
           j \in jobs \/ (j.call = c /\ co'[c] \in Recording /\ j.op = Outcome(co'[c])),
         co'[c] \in Recording => [call |-> c, op |-> Outcome(co'[c])] \in jobs',
         co'[c] \in Owner \cup Recording =>
           co'[c] = co[c] \/ \A j \in jobs : j.call = c => j.op \notin Terminal
  PROVE  OutcomeIsUnderway'
<1>1. \A d \in Call : co'[d] \in Recording => [call |-> d, op |-> Outcome(co'[d])] \in jobs'
  <2> TAKE d \in Call
  <2>1. CASE d = c
    BY <2>1
  <2>2. CASE d # c
    BY <2>2, OutcomeIs DEF OutcomeIsUnderway
  <2> QED BY <2>1, <2>2
<1>2. \A j \in jobs' : j.op \in Terminal =>
        co'[j.call] \notin Owner /\ (co'[j.call] \in Recording => j.op = Outcome(co'[j.call]))
  BY DEF OutcomeIsUnderway, Job
<1> QED BY <1>1, <1>2 DEF OutcomeIsUnderway

\* A first authorization: the call moves on or is refused without a row.
LEMMA AuthorizeAnswers ==
  ASSUME AInv, IInv', NEW c \in Call, Authorize(c)
  PROVE  AInv'
<1> USE DEF ledger, broker, ghosts, Goto, Reply
<1>0. TypeOK /\ TypeOK' BY DEF AInv, IInv
<1>1. NewIsFresh'
  BY <1>0 DEF AInv, NewIsFresh, TypeOK, Authorize
<1>2. OneEngaged'
  BY <1>0 DEF AInv, OneEngaged, TypeOK, Authorize, Engaged, K
<1>3. AbsentIsQuiet'
  BY <1>0 DEF AInv, AbsentIsQuiet, TypeOK, Job, Authorize, Engaged, K
<1>4. WireIsOpen'
  BY <1>0 DEF AInv, WireIsOpen, TypeOK, Authorize
<1>5. TakenIsDecided'
  BY <1>0 DEF AInv, TakenIsDecided, TypeOK, Authorize, K, WireIsOpen
<1>6. RejectedIsSafe'
  BY <1>0 DEF AInv, RejectedIsSafe, TypeOK, Job, Authorize, Says, Refused, K
<1>7. AcceptedIsSafe'
  BY <1>0 DEF AInv, AcceptedIsSafe, TypeOK, Job, Authorize, Says, K
<1>8. ReadyIsDispatched'
  BY <1>0 DEF AInv, ReadyIsDispatched, TypeOK, Job, Authorize, K
<1>9. OutcomeIsUnderway'
  <2>1. \A d \in Call : d # c => co'[d] = co[d]
    BY <1>0 DEF Authorize, TypeOK
  <2>2. \A j \in jobs : j.call # c /\ j.op \in Terminal => j \in jobs'
    BY DEF Authorize
  <2>3. \A j \in jobs' : j.op \in Terminal =>
          j \in jobs \/ (j.call = c /\ co'[c] \in Recording /\ j.op = Outcome(co'[c]))
    BY <1>0, OutcomeIs DEF Authorize, TypeOK
  <2>4. co'[c] \in Recording => [call |-> c, op |-> Outcome(co'[c])] \in jobs'
    BY <1>0, OutcomeIs DEF Authorize, TypeOK, AInv, OutcomeIsUnderway
  <2>5. co'[c] \in Owner \cup Recording =>
          co'[c] = co[c] \/ \A j \in jobs : j.call = c => j.op \notin Terminal
    BY <1>0 DEF Authorize, TypeOK, AInv, OutcomeIsUnderway
  <2> QED BY <1>0, <2>1, <2>2, <2>3, <2>4, <2>5, UnderwayStays DEF AInv, TypeOK
<1>10. OpenRowsAreOwned'
  <2>1. \A d \in Call : co[d] \in Owner \cup Recording => co'[d] \in Owner \cup Recording
    BY <1>0 DEF Authorize, TypeOK
  <2>2. \A j \in jobs : j.op \in Terminal => j \in jobs'
    BY <1>0 DEF Authorize
  <2>3. /\ rows' = rows /\ up' = up /\ stranded' = stranded /\ jobs \subseteq Job
        /\ \A d \in Call : K(d)' = K(d)
    BY <1>0 DEF Authorize, K, TypeOK
  <2> QED BY <2>1, <2>2, <2>3, OwnedStays DEF AInv, Job
<1> QED BY <1>1, <1>2, <1>3, <1>4, <1>5, <1>6, <1>7, <1>8, <1>9, <1>10 DEF AInv

\* Claiming the row: the first call of a key engages itself, a repeated one is told.
LEMMA ClaimRowAnswers ==
  ASSUME AInv, IInv', NEW c \in Call, ClaimRow(c)
  PROVE  AInv'
<1> USE DEF ledger, broker, ghosts, Goto, Reply
<1>0. TypeOK /\ TypeOK' BY DEF AInv, IInv
<1>1. NewIsFresh'
  BY <1>0 DEF AInv, NewIsFresh, TypeOK, ClaimRow
<1>2. OneEngaged'
  <2>1. \A d \in Call : K(d)' = K(d) /\ wire' = wire /\ verdict' = verdict
    BY DEF ClaimRow, K
  <2>2. \A d \in Call : co'[d] \in Owner =>
          co[d] \in Owner \/ (d = c /\ rows[K(c)].outcome = "absent")
    BY <1>0 DEF ClaimRow, TypeOK
  <2>3. rows[K(c)].outcome = "absent" => \A d \in Call : K(d) = K(c) => ~Engaged(d)
    BY DEF AInv, AbsentIsQuiet
  <2> QED BY <2>1, <2>2, <2>3 DEF AInv, OneEngaged, Engaged
<1>3. AbsentIsQuiet'
  BY <1>0 DEF AInv, AbsentIsQuiet, TypeOK, Job, ClaimRow, CommitFull, Replay, Engaged, K
<1>4. WireIsOpen'
  <2>1. \A d \in Call : co'[d] \in BeforeSend =>
          co[d] \in BeforeSend \/ (d = c /\ rows[K(c)].outcome = "absent")
    BY <1>0 DEF ClaimRow, TypeOK
  <2>2. rows[K(c)].outcome = "absent" => ~Engaged(c)
    BY DEF AInv, AbsentIsQuiet
  <2>3. wire' = wire /\ verdict' = verdict
    BY DEF ClaimRow
  <2> QED BY <2>1, <2>2, <2>3 DEF AInv, WireIsOpen, Engaged
<1>5. TakenIsDecided'
  BY <1>0 DEF AInv, TakenIsDecided, TypeOK, ClaimRow, K, WireIsOpen
<1>6. RejectedIsSafe'
  <2>1. \A d \in Call : K(d)' = K(d) /\ K(d) \in Key
    BY <1>0 DEF ClaimRow, K, TypeOK
  <2>2. /\ wire' = wire /\ taken' = taken /\ jobs' \subseteq jobs /\ older' \subseteq older
        /\ \A k \in Key : rows'[k].outcome \in {rows[k].outcome, "claimed"}
    BY <1>0 DEF ClaimRow, CommitFull, TypeOK
  <2>3. \A d \in Call : co'[d] \in BeforeSend =>
          co[d] \in BeforeSend \/ (d = c /\ rows[K(c)].outcome = "absent")
    BY <1>0 DEF ClaimRow, TypeOK
  <2>4. \A d \in Call :
          /\ co'[d] = "rejecting" => co[d] = "rejecting"
          /\ reply'[d] = "rejected" =>
               reply[d] = "rejected" \/ (d = c /\ rows[K(c)].outcome = "rejected")
    BY <1>0, <2>1, ReplayTells DEF ClaimRow, TypeOK
  <2>5. \A k \in Key : Says(k, "rejected", "rejecting") => rows[k].outcome # "absent"
    BY <1>0 DEF AInv, AbsentIsQuiet, Says, IInv, ClaimsAreDurable, Job, TypeOK
  <2>6. \A k \in Key : Says(k, "rejected", "rejecting")' => Says(k, "rejected", "rejecting")
    <3> SUFFICES ASSUME NEW k \in Key, Says(k, "rejected", "rejecting")'
                 PROVE  Says(k, "rejected", "rejecting")
      OBVIOUS
    <3>1. CASE rows'[k].outcome = "rejected" \/ \E t \in older' : t[k].outcome = "rejected"
      BY <2>2, <3>1 DEF Says
    <3>2. CASE \E d \in Call : K(d)' = k /\ (reply'[d] = "rejected" \/ co'[d] = "rejecting")
      <4>1. PICK d \in Call : K(d) = k /\ (reply'[d] = "rejected" \/ co'[d] = "rejecting")
        BY <2>1, <3>2
      <4>2. CASE reply[d] = "rejected" \/ co[d] = "rejecting"
        BY <4>1, <4>2 DEF Says
      <4>3. CASE rows[k].outcome = "rejected"
        BY <4>3 DEF Says
      <4> QED BY <2>4, <4>1, <4>2, <4>3
    <3>3. CASE \E j \in jobs' : K(j.call)' = k /\ j.op = "rejected"
      BY <1>0, <2>1, <2>2, <3>3 DEF Says, TypeOK, Job
    <3> QED BY <3>1, <3>2, <3>3 DEF Says
  <2> QED BY <2>1, <2>2, <2>3, <2>5, <2>6 DEF AInv, RejectedIsSafe, Refused
<1>7. AcceptedIsSafe'
  BY <1>0 DEF AInv, AcceptedIsSafe, TypeOK, Job, ClaimRow, CommitFull, Replay, Says, K
<1>8. ReadyIsDispatched'
  <2>1. \A d \in Call : K(d)' = K(d) /\ K(d) \in Key
    BY <1>0 DEF ClaimRow, K, TypeOK
  <2>2. \A k \in Key : rows'[k].outcome = "claimed" => rows[k].outcome \in {"claimed", "absent"}
    BY <1>0 DEF ClaimRow, CommitFull, TypeOK
  <2>3. /\ jobs' \subseteq jobs /\ jobs \subseteq Job
        /\ \A d \in Call : co'[d] \in {"ready", "sending", "accepting"} => co'[d] = co[d]
    BY <1>0 DEF ClaimRow, TypeOK
  <2> QED BY <2>1, <2>2, <2>3 DEF AInv, ReadyIsDispatched, AbsentIsQuiet, Engaged, Job
<1>9. OutcomeIsUnderway'
  <2>1. \A d \in Call : d # c => co'[d] = co[d]
    BY <1>0 DEF ClaimRow, CommitFull, TypeOK
  <2>2. \A j \in jobs : j.call # c /\ j.op \in Terminal => j \in jobs'
    BY DEF ClaimRow, CommitFull
  <2>3. \A j \in jobs' : j.op \in Terminal =>
          j \in jobs \/ (j.call = c /\ co'[c] \in Recording /\ j.op = Outcome(co'[c]))
    BY <1>0, OutcomeIs DEF ClaimRow, CommitFull, TypeOK
  <2>4. co'[c] \in Recording => [call |-> c, op |-> Outcome(co'[c])] \in jobs'
    BY <1>0, OutcomeIs DEF ClaimRow, CommitFull, TypeOK, AInv, OutcomeIsUnderway
  <2>5. co'[c] \in Owner \cup Recording =>
          co'[c] = co[c] \/ \A j \in jobs : j.call = c => j.op \notin Terminal
    BY <1>0 DEF ClaimRow, CommitFull, TypeOK, AInv, OutcomeIsUnderway, AbsentIsQuiet, K
  <2> QED BY <1>0, <2>1, <2>2, <2>3, <2>4, <2>5, UnderwayStays DEF AInv, TypeOK
<1>10. OpenRowsAreOwned'
  <2> DEFINE k == K(c)
  <2>1. /\ up' = up /\ stranded \subseteq stranded' /\ jobs \subseteq Job
        /\ \A d \in Call : K(d)' = K(d) /\ K(d) \in Key
    BY <1>0 DEF ClaimRow, K, TypeOK
  <2>2. \A d \in Call : co[d] \in Owner \cup Recording => co'[d] \in Owner \cup Recording
    BY <1>0 DEF ClaimRow, TypeOK
  <2>3. \A j \in jobs : j.op \in Terminal => j \in jobs'
    BY DEF ClaimRow
  <2>4. CASE rows[k].outcome # "absent"
    <3>1. rows' = rows
      BY <2>4 DEF ClaimRow
    <3> QED BY <2>1, <2>2, <2>3, <3>1, OwnedStays DEF AInv, Job
  <2>5. CASE rows[k].outcome = "absent"
    <3>1. \A i \in Key : i # k => rows'[i] = rows[i]
      BY <1>0, <2>5 DEF ClaimRow, CommitFull, TypeOK
    <3>2. k \in stranded' \/ co'[c] \in Owner
      BY <1>0, <2>5 DEF ClaimRow, TypeOK
    <3> QED BY <2>1, <2>2, <2>3, <3>1, <3>2 DEF AInv, OpenRowsAreOwned, Job
  <2> QED BY <2>4, <2>5
<1> QED BY <1>1, <1>2, <1>3, <1>4, <1>5, <1>6, <1>7, <1>8, <1>9, <1>10 DEF AInv

\* A claim that fails is answered before anything is sent.
LEMMA ClaimFailsAnswers ==
  ASSUME AInv, IInv', NEW c \in Call, ClaimFails(c)
  PROVE  AInv'
<1> USE DEF ledger, broker, ghosts, Goto, Reply
<1>0. TypeOK /\ TypeOK' BY DEF AInv, IInv
<1>1. NewIsFresh'
  BY <1>0 DEF AInv, NewIsFresh, TypeOK, ClaimFails
<1>2. OneEngaged'
  BY <1>0 DEF AInv, OneEngaged, TypeOK, ClaimFails, Engaged, K
<1>3. AbsentIsQuiet'
  BY <1>0 DEF AInv, AbsentIsQuiet, TypeOK, Job, ClaimFails, Engaged, K
<1>4. WireIsOpen'
  BY <1>0 DEF AInv, WireIsOpen, TypeOK, ClaimFails
<1>5. TakenIsDecided'
  BY <1>0 DEF AInv, TakenIsDecided, TypeOK, ClaimFails, K, WireIsOpen
<1>6. RejectedIsSafe'
  BY <1>0 DEF AInv, RejectedIsSafe, TypeOK, Job, ClaimFails, Says, Refused, K
<1>7. AcceptedIsSafe'
  BY <1>0 DEF AInv, AcceptedIsSafe, TypeOK, Job, ClaimFails, Says, K
<1>8. ReadyIsDispatched'
  BY <1>0 DEF AInv, ReadyIsDispatched, TypeOK, Job, ClaimFails, K
<1>9. OutcomeIsUnderway'
  <2>1. \A d \in Call : d # c => co'[d] = co[d]
    BY <1>0 DEF ClaimFails, TypeOK
  <2>2. \A j \in jobs : j.call # c /\ j.op \in Terminal => j \in jobs'
    BY DEF ClaimFails
  <2>3. \A j \in jobs' : j.op \in Terminal =>
          j \in jobs \/ (j.call = c /\ co'[c] \in Recording /\ j.op = Outcome(co'[c]))
    BY <1>0, OutcomeIs DEF ClaimFails, TypeOK
  <2>4. co'[c] \in Recording => [call |-> c, op |-> Outcome(co'[c])] \in jobs'
    BY <1>0, OutcomeIs DEF ClaimFails, TypeOK, AInv, OutcomeIsUnderway
  <2>5. co'[c] \in Owner \cup Recording =>
          co'[c] = co[c] \/ \A j \in jobs : j.call = c => j.op \notin Terminal
    BY <1>0 DEF ClaimFails, TypeOK, AInv, OutcomeIsUnderway
  <2> QED BY <1>0, <2>1, <2>2, <2>3, <2>4, <2>5, UnderwayStays DEF AInv, TypeOK
<1>10. OpenRowsAreOwned'
  <2>1. \A d \in Call : co[d] \in Owner \cup Recording => co'[d] \in Owner \cup Recording
    BY <1>0 DEF ClaimFails, TypeOK
  <2>2. \A j \in jobs : j.op \in Terminal => j \in jobs'
    BY <1>0 DEF ClaimFails
  <2>3. /\ rows' = rows /\ up' = up /\ stranded' = stranded /\ jobs \subseteq Job
        /\ \A d \in Call : K(d)' = K(d)
    BY <1>0 DEF ClaimFails, K, TypeOK
  <2> QED BY <2>1, <2>2, <2>3, OwnedStays DEF AInv, Job
<1> QED BY <1>1, <1>2, <1>3, <1>4, <1>5, <1>6, <1>7, <1>8, <1>9, <1>10 DEF AInv

\* A check before the broker call passes, or refuses the order for good.
LEMMA StepAnswers ==
  ASSUME AInv, IInv', NEW c \in Call, NEW from \in BeforeSend, NEW needs,
         NEW to \in {"resolve", "authorize2", "check2"}, Step(c, from, needs, to)
  PROVE  AInv'
<1> USE DEF ledger, broker, ghosts, Goto, Reply
<1>0. TypeOK /\ TypeOK' BY DEF AInv, IInv
<1>1. NewIsFresh'
  BY <1>0 DEF AInv, NewIsFresh, TypeOK, Step, Finish
<1>2. OneEngaged'
  BY <1>0 DEF AInv, OneEngaged, TypeOK, Step, Finish, Engaged, K
<1>3. AbsentIsQuiet'
  BY <1>0 DEF AInv, AbsentIsQuiet, TypeOK, Job, Step, Finish, Engaged, K
<1>4. WireIsOpen'
  BY <1>0 DEF AInv, WireIsOpen, TypeOK, Step, Finish
<1>5. TakenIsDecided'
  BY <1>0 DEF AInv, TakenIsDecided, TypeOK, Step, Finish, K, WireIsOpen
<1>6. RejectedIsSafe'
  <2>1. /\ \A d \in Call : K(d)' = K(d) /\ K(d) \in Key
        /\ older' \subseteq older \cup {rows}
        /\ \A k \in Key : rows'[k].outcome = "rejected" => rows[k].outcome = "rejected"
    BY <1>0 DEF Step, Finish, K, TypeOK
  <2>2. \A k \in Key : Refused(k) => Refused(k)'
    BY <1>0 DEF Step, Finish, AInv, Refused, K, TypeOK
  <2>3. \/ \A d \in Call : co'[d] = "rejecting" => co[d] = "rejecting"
        \/ Refused(K(c))' /\ \A d \in Call : co'[d] = "rejecting" => co[d] = "rejecting" \/ d = c
    BY <1>0, AloneUntaken, OutcomeIs DEF Step, Finish, AInv, Refused, WireIsOpen, Engaged,
         K, TypeOK
  <2>4. \A j \in jobs' : j.op = "rejected" =>
          j \in jobs \/ (j.call = c /\ co'[c] = "rejecting" /\ co[c] # "rejecting")
    BY <1>0, OutcomeIs DEF Step, Finish, TypeOK
  <2>5. reply' = reply
    BY DEF Step, Finish
  <2> QED BY <1>0, <2>1, <2>2, <2>3, <2>4, <2>5 DEF AInv, RejectedIsSafe, Says, Job, TypeOK
<1>7. AcceptedIsSafe'
  BY <1>0 DEF AInv, AcceptedIsSafe, TypeOK, Job, Row, Step, Finish, Outcome, Says, K
<1>8. ReadyIsDispatched'
  <2>1. rows' = rows /\ \A d \in Call : K(d)' = K(d)
    BY DEF Step, K
  <2>2. \A d \in Call : co'[d] \in {"ready", "sending", "accepting"} => co'[d] = co[d]
    BY <1>0 DEF Step, Finish, TypeOK
  <2>3. \A j \in jobs' : j.op = "accepted" => j \in jobs
    BY OutcomeIs DEF Step, Finish
  <2> QED BY <1>0, <2>1, <2>2, <2>3 DEF AInv, ReadyIsDispatched, TypeOK, Job
<1>9. OutcomeIsUnderway'
  <2>1. \A d \in Call : d # c => co'[d] = co[d]
    BY <1>0 DEF Step, Finish, TypeOK
  <2>2. \A j \in jobs : j.call # c /\ j.op \in Terminal => j \in jobs'
    BY DEF Step, Finish
  <2>3. \A j \in jobs' : j.op \in Terminal =>
          j \in jobs \/ (j.call = c /\ co'[c] \in Recording /\ j.op = Outcome(co'[c]))
    BY <1>0, OutcomeIs DEF Step, Finish, TypeOK
  <2>4. co'[c] \in Recording => [call |-> c, op |-> Outcome(co'[c])] \in jobs'
    BY <1>0, OutcomeIs DEF Step, Finish, TypeOK, AInv, OutcomeIsUnderway
  <2>5. co'[c] \in Owner \cup Recording =>
          co'[c] = co[c] \/ \A j \in jobs : j.call = c => j.op \notin Terminal
    BY <1>0 DEF Step, Finish, TypeOK, AInv, OutcomeIsUnderway
  <2> QED BY <1>0, <2>1, <2>2, <2>3, <2>4, <2>5, UnderwayStays DEF AInv, TypeOK
<1>10. OpenRowsAreOwned'
  <2>1. \A d \in Call : co[d] \in Owner \cup Recording => co'[d] \in Owner \cup Recording
    BY <1>0 DEF Step, Finish, TypeOK
  <2>2. \A j \in jobs : j.op \in Terminal => j \in jobs'
    BY <1>0 DEF Step, Finish
  <2>3. /\ rows' = rows /\ up' = up /\ stranded' = stranded /\ jobs \subseteq Job
        /\ \A d \in Call : K(d)' = K(d)
    BY <1>0 DEF Step, K, TypeOK
  <2> QED BY <2>1, <2>2, <2>3, OwnedStays DEF AInv, Job
<1> QED BY <1>1, <1>2, <1>3, <1>4, <1>5, <1>6, <1>7, <1>8, <1>9, <1>10 DEF AInv

\* The last check starts the dispatch statement or refuses the order.
LEMMA Check2Answers ==
  ASSUME AInv, IInv', NEW c \in Call, Check2(c)
  PROVE  AInv'
<1> USE DEF ledger, broker, ghosts, Goto, Reply
<1>0. TypeOK /\ TypeOK' BY DEF AInv, IInv
<1>1. NewIsFresh'
  BY <1>0 DEF AInv, NewIsFresh, TypeOK, Check2, Finish
<1>2. OneEngaged'
  BY <1>0 DEF AInv, OneEngaged, TypeOK, Check2, Finish, Engaged, K
<1>3. AbsentIsQuiet'
  BY <1>0 DEF AInv, AbsentIsQuiet, TypeOK, Job, Check2, Finish, Engaged, K
<1>4. WireIsOpen'
  BY <1>0 DEF AInv, WireIsOpen, TypeOK, Check2, Finish
<1>5. TakenIsDecided'
  BY <1>0 DEF AInv, TakenIsDecided, TypeOK, Check2, Finish, K, WireIsOpen
<1>6. RejectedIsSafe'
  <2>1. /\ \A d \in Call : K(d)' = K(d) /\ K(d) \in Key
        /\ older' \subseteq older \cup {rows}
        /\ \A k \in Key : rows'[k].outcome = "rejected" => rows[k].outcome = "rejected"
    BY <1>0 DEF Check2, Finish, K, TypeOK
  <2>2. \A k \in Key : Refused(k) => Refused(k)'
    BY <1>0 DEF Check2, Finish, AInv, Refused, K, TypeOK
  <2>3. \/ \A d \in Call : co'[d] = "rejecting" => co[d] = "rejecting"
        \/ Refused(K(c))' /\ \A d \in Call : co'[d] = "rejecting" => co[d] = "rejecting" \/ d = c
    BY <1>0, AloneUntaken, OutcomeIs DEF Check2, Finish, AInv, Refused, WireIsOpen,
         Engaged, K, TypeOK
  <2>4. \A j \in jobs' : j.op = "rejected" =>
          j \in jobs \/ (j.call = c /\ co'[c] = "rejecting" /\ co[c] # "rejecting")
    BY <1>0, OutcomeIs DEF Check2, Finish, TypeOK
  <2>5. reply' = reply
    BY DEF Check2, Finish
  <2> QED BY <1>0, <2>1, <2>2, <2>3, <2>4, <2>5 DEF AInv, RejectedIsSafe, Says, Job, TypeOK
<1>7. AcceptedIsSafe'
  BY <1>0 DEF AInv, AcceptedIsSafe, TypeOK, Job, Row, Check2, Finish, Outcome, Says, K
<1>8. ReadyIsDispatched'
  BY <1>0 DEF AInv, ReadyIsDispatched, TypeOK, Job, Row, Check2, Finish, Outcome, K
<1>9. OutcomeIsUnderway'
  <2>1. \A d \in Call : d # c => co'[d] = co[d]
    BY <1>0 DEF Check2, Finish, TypeOK
  <2>2. \A j \in jobs : j.call # c /\ j.op \in Terminal => j \in jobs'
    BY DEF Check2, Finish
  <2>3. \A j \in jobs' : j.op \in Terminal =>
          j \in jobs \/ (j.call = c /\ co'[c] \in Recording /\ j.op = Outcome(co'[c]))
    BY <1>0, OutcomeIs DEF Check2, Finish, TypeOK
  <2>4. co'[c] \in Recording => [call |-> c, op |-> Outcome(co'[c])] \in jobs'
    BY <1>0, OutcomeIs DEF Check2, Finish, TypeOK, AInv, OutcomeIsUnderway
  <2>5. co'[c] \in Owner \cup Recording =>
          co'[c] = co[c] \/ \A j \in jobs : j.call = c => j.op \notin Terminal
    BY <1>0 DEF Check2, Finish, TypeOK, AInv, OutcomeIsUnderway
  <2> QED BY <1>0, <2>1, <2>2, <2>3, <2>4, <2>5, UnderwayStays DEF AInv, TypeOK
<1>10. OpenRowsAreOwned'
  <2>1. \A d \in Call : co[d] \in Owner \cup Recording => co'[d] \in Owner \cup Recording
    BY <1>0 DEF Check2, Finish, TypeOK
  <2>2. \A j \in jobs : j.op \in Terminal => j \in jobs'
    BY <1>0 DEF Check2, Finish
  <2>3. /\ rows' = rows /\ up' = up /\ stranded' = stranded /\ jobs \subseteq Job
        /\ \A d \in Call : K(d)' = K(d)
    BY <1>0 DEF Check2, K, TypeOK
  <2> QED BY <2>1, <2>2, <2>3, OwnedStays DEF AInv, Job
<1> QED BY <1>1, <1>2, <1>3, <1>4, <1>5, <1>6, <1>7, <1>8, <1>9, <1>10 DEF AInv

\* The dispatch statement: the row says so before the call may go on.
LEMMA DispatchRowAnswers ==
  ASSUME AInv, IInv', NEW c \in Call, DispatchRow(c)
  PROVE  AInv'
<1> USE DEF ledger, broker, ghosts, Goto, Reply
<1>0. TypeOK /\ TypeOK' BY DEF AInv, IInv
<1>1. NewIsFresh'
  BY <1>0 DEF AInv, NewIsFresh, TypeOK, DispatchRow
<1>2. OneEngaged'
  BY <1>0 DEF AInv, OneEngaged, TypeOK, DispatchRow, Engaged, K
<1>3. AbsentIsQuiet'
  BY <1>0 DEF AInv, AbsentIsQuiet, TypeOK, Job, Row, DispatchRow, CommitNormal, Engaged, K
<1>4. WireIsOpen'
  BY <1>0 DEF AInv, WireIsOpen, TypeOK, DispatchRow
<1>5. TakenIsDecided'
  BY <1>0 DEF AInv, TakenIsDecided, TypeOK, DispatchRow, K, WireIsOpen
<1>6. RejectedIsSafe'
  <2>1. /\ \A d \in Call : K(d)' = K(d) /\ K(d) \in Key
        /\ older' \subseteq older \cup {rows} /\ reply' = reply
    BY <1>0 DEF DispatchRow, CommitNormal, K, TypeOK
  <2>2. \A k \in Key : rows'[k].outcome = "rejected" => rows[k].outcome = "rejected"
    <3>1. \/ rows' = rows
          \/ rows[K(c)].outcome = "claimed" /\ rows' = [rows EXCEPT ![K(c)].outcome = "dispatching"]
      BY DEF DispatchRow, CommitNormal
    <3>2. rows \in [Key -> Row] /\ K(c) \in Key
      BY <1>0, <2>1 DEF TypeOK
    <3> QED BY <3>1, <3>2 DEF Row
  <2>3. \A k \in Key : Refused(k) => Refused(k)'
    BY <1>0 DEF DispatchRow, AInv, Refused, K, TypeOK
  <2>4. \/ co' = co /\ jobs' \subseteq jobs
        \/ co[c] = "dispatching" /\ co' = [co EXCEPT ![c] = "ready"] /\ jobs' \subseteq jobs
        \/ /\ co[c] = "dispatching" /\ co' = [co EXCEPT ![c] = "rejecting"]
           /\ jobs' \subseteq jobs \cup {[call |-> c, op |-> "rejected"]}
    BY DEF DispatchRow
  <2>5. CASE co[c] = "dispatching"
    <3>1. co'[c] = "rejecting" => Refused(K(c))'
      <4>1. verdict[c] = "none" /\ c \notin wire /\ Engaged(c)
        BY <2>5 DEF AInv, WireIsOpen, Engaged
      <4>2. taken' = taken /\ wire' = wire /\ \A d \in Call : d # c => co'[d] = co[d]
        BY <1>0 DEF DispatchRow, TypeOK
      <4> QED BY <2>1, <4>1, <4>2, AloneUntaken DEF Refused
    <3> QED BY <1>0, <2>1, <2>2, <2>3, <2>4, <3>1 DEF AInv, RejectedIsSafe, Says, Job, TypeOK
  <2>6. CASE co[c] # "dispatching"
    BY <1>0, <2>1, <2>2, <2>3, <2>4, <2>6 DEF AInv, RejectedIsSafe, Says, Job, TypeOK
  <2> QED BY <2>5, <2>6
<1>7. AcceptedIsSafe'
  BY <1>0 DEF AInv, AcceptedIsSafe, TypeOK, Job, Row, DispatchRow, CommitNormal, Says, K
<1>8. ReadyIsDispatched'
  <2>1. \A d \in Call : K(d)' = K(d) /\ K(d) \in Key
    BY <1>0 DEF DispatchRow, K, TypeOK
  <2>2. \A k \in Key : rows'[k].outcome = "claimed" => rows[k].outcome = "claimed" /\ k # K(c)
    <3>1. \/ rows' = rows /\ rows[K(c)].outcome # "claimed"
          \/ rows[K(c)].outcome = "claimed" /\ rows' = [rows EXCEPT ![K(c)].outcome = "dispatching"]
      BY DEF DispatchRow, CommitNormal
    <3>2. rows \in [Key -> Row] /\ K(c) \in Key
      BY <1>0, <2>1 DEF TypeOK
    <3> QED BY <3>1, <3>2 DEF Row
  <2>3. \A d \in Call : co'[d] \in {"ready", "sending", "accepting"} => d = c \/ co'[d] = co[d]
    BY <1>0 DEF DispatchRow, TypeOK
  <2>4. \A j \in jobs' : j.op = "accepted" => j \in jobs
    BY DEF DispatchRow
  <2>5. ReadyIsDispatched /\ jobs \subseteq Job
    BY <1>0 DEF AInv, TypeOK
  <2> QED BY <2>1, <2>2, <2>3, <2>4, <2>5 DEF ReadyIsDispatched, Job
<1>9. OutcomeIsUnderway'
  <2>1. \A d \in Call : d # c => co'[d] = co[d]
    BY <1>0 DEF DispatchRow, CommitNormal, TypeOK
  <2>2. \A j \in jobs : j.call # c /\ j.op \in Terminal => j \in jobs'
    BY DEF DispatchRow, CommitNormal
  <2>3. \A j \in jobs' : j.op \in Terminal =>
          j \in jobs \/ (j.call = c /\ co'[c] \in Recording /\ j.op = Outcome(co'[c]))
    BY <1>0, OutcomeIs DEF DispatchRow, CommitNormal, TypeOK
  <2>4. co'[c] \in Recording => [call |-> c, op |-> Outcome(co'[c])] \in jobs'
    BY <1>0, OutcomeIs DEF DispatchRow, CommitNormal, TypeOK, AInv, OutcomeIsUnderway
  <2>5. co'[c] \in Owner \cup Recording =>
          co'[c] = co[c] \/ \A j \in jobs : j.call = c => j.op \notin Terminal
    BY <1>0 DEF DispatchRow, CommitNormal, TypeOK, AInv, OutcomeIsUnderway
  <2> QED BY <1>0, <2>1, <2>2, <2>3, <2>4, <2>5, UnderwayStays DEF AInv, TypeOK
<1>10. OpenRowsAreOwned'
  <2>1. /\ up' = up /\ stranded' = stranded /\ jobs \subseteq Job
        /\ \A d \in Call : K(d)' = K(d) /\ K(d) \in Key
    BY <1>0 DEF DispatchRow, K, TypeOK
  <2>2. \A k \in Key : rows'[k].outcome \in Open => rows[k].outcome \in Open
    <3>1. \/ rows' = rows
          \/ rows[K(c)].outcome = "claimed" /\ rows' = [rows EXCEPT ![K(c)].outcome = "dispatching"]
      BY DEF DispatchRow, CommitNormal
    <3>2. rows \in [Key -> Row] /\ K(c) \in Key
      BY <1>0, <2>1 DEF TypeOK
    <3> QED BY <3>1, <3>2 DEF Row
  <2>3. \A d \in Call : co[d] \in Owner \cup Recording => co'[d] \in Owner \cup Recording
    BY <1>0 DEF DispatchRow, TypeOK
  <2>4. \A j \in jobs : j.op \in Terminal => j \in jobs'
    BY DEF DispatchRow
  <2> QED BY <2>1, <2>2, <2>3, <2>4, OwnedStays DEF AInv, Job
<1> QED BY <1>1, <1>2, <1>3, <1>4, <1>5, <1>6, <1>7, <1>8, <1>9, <1>10 DEF AInv

\* A dispatch statement that fails ends in "unknown": nothing was sent.
LEMMA DispatchFailsAnswers ==
  ASSUME AInv, IInv', NEW c \in Call, DispatchFails(c)
  PROVE  AInv'
<1> USE DEF ledger, broker, ghosts, Goto, Reply
<1>0. TypeOK /\ TypeOK' BY DEF AInv, IInv
<1>1. NewIsFresh'
  BY <1>0 DEF AInv, NewIsFresh, TypeOK, DispatchFails
<1>2. OneEngaged'
  BY <1>0 DEF AInv, OneEngaged, TypeOK, DispatchFails, Engaged, K
<1>3. AbsentIsQuiet'
  BY <1>0 DEF AInv, AbsentIsQuiet, TypeOK, Job, DispatchFails, Engaged, K
<1>4. WireIsOpen'
  BY <1>0 DEF AInv, WireIsOpen, TypeOK, DispatchFails
<1>5. TakenIsDecided'
  BY <1>0 DEF AInv, TakenIsDecided, TypeOK, DispatchFails, K, WireIsOpen
<1>6. RejectedIsSafe'
  <2>1. /\ \A d \in Call : K(d)' = K(d) /\ K(d) \in Key
        /\ older' \subseteq older \cup {rows}
        /\ \A k \in Key : rows'[k].outcome = "rejected" => rows[k].outcome = "rejected"
    BY <1>0 DEF DispatchFails, K, TypeOK
  <2>2. \A k \in Key : Refused(k) => Refused(k)'
    BY <1>0 DEF DispatchFails, AInv, Refused, K, TypeOK
  <2>3. \/ \A d \in Call : co'[d] = "rejecting" => co[d] = "rejecting"
        \/ Refused(K(c))' /\ \A d \in Call : co'[d] = "rejecting" => co[d] = "rejecting" \/ d = c
    BY <1>0, AloneUntaken, OutcomeIs DEF DispatchFails, AInv, Refused, WireIsOpen, Engaged,
         K, TypeOK
  <2>4. \A j \in jobs' : j.op = "rejected" =>
          j \in jobs \/ (j.call = c /\ co'[c] = "rejecting" /\ co[c] # "rejecting")
    BY <1>0, OutcomeIs DEF DispatchFails, TypeOK
  <2>5. reply' = reply
    BY DEF DispatchFails
  <2> QED BY <1>0, <2>1, <2>2, <2>3, <2>4, <2>5 DEF AInv, RejectedIsSafe, Says, Job, TypeOK
<1>7. AcceptedIsSafe'
  BY <1>0 DEF AInv, AcceptedIsSafe, TypeOK, Job, DispatchFails, Says, K
<1>8. ReadyIsDispatched'
  BY <1>0 DEF AInv, ReadyIsDispatched, TypeOK, Job, DispatchFails, K
<1>9. OutcomeIsUnderway'
  <2>1. \A d \in Call : d # c => co'[d] = co[d]
    BY <1>0 DEF DispatchFails, TypeOK
  <2>2. \A j \in jobs : j.call # c /\ j.op \in Terminal => j \in jobs'
    BY DEF DispatchFails
  <2>3. \A j \in jobs' : j.op \in Terminal =>
          j \in jobs \/ (j.call = c /\ co'[c] \in Recording /\ j.op = Outcome(co'[c]))
    BY <1>0, OutcomeIs DEF DispatchFails, TypeOK
  <2>4. co'[c] \in Recording => [call |-> c, op |-> Outcome(co'[c])] \in jobs'
    BY <1>0, OutcomeIs DEF DispatchFails, TypeOK, AInv, OutcomeIsUnderway
  <2>5. co'[c] \in Owner \cup Recording =>
          co'[c] = co[c] \/ \A j \in jobs : j.call = c => j.op \notin Terminal
    BY <1>0 DEF DispatchFails, TypeOK, AInv, OutcomeIsUnderway
  <2> QED BY <1>0, <2>1, <2>2, <2>3, <2>4, <2>5, UnderwayStays DEF AInv, TypeOK
<1>10. OpenRowsAreOwned'
  <2>1. \A d \in Call : co[d] \in Owner \cup Recording => co'[d] \in Owner \cup Recording
    BY <1>0 DEF DispatchFails, TypeOK
  <2>2. \A j \in jobs : j.op \in Terminal => j \in jobs'
    BY <1>0 DEF DispatchFails
  <2>3. /\ rows' = rows /\ up' = up /\ stranded' = stranded /\ jobs \subseteq Job
        /\ \A d \in Call : K(d)' = K(d)
    BY <1>0 DEF DispatchFails, K, TypeOK
  <2> QED BY <2>1, <2>2, <2>3, OwnedStays DEF AInv, Job
<1> QED BY <1>1, <1>2, <1>3, <1>4, <1>5, <1>6, <1>7, <1>8, <1>9, <1>10 DEF AInv

\* The broker call goes on the wire, or is refused by the last switch.
LEMMA PlaceOrderAnswers ==
  ASSUME AInv, IInv', NEW c \in Call, PlaceOrder(c)
  PROVE  AInv'
<1> USE DEF ledger, broker, ghosts, Goto, Reply
<1>0. TypeOK /\ TypeOK' BY DEF AInv, IInv
<1>1. NewIsFresh'
  BY <1>0 DEF AInv, NewIsFresh, TypeOK, PlaceOrder, Finish
<1>2. OneEngaged'
  BY <1>0 DEF AInv, OneEngaged, TypeOK, PlaceOrder, Finish, Engaged, K
<1>3. AbsentIsQuiet'
  BY <1>0 DEF AInv, AbsentIsQuiet, TypeOK, Job, PlaceOrder, Finish, Engaged, K
<1>4. WireIsOpen'
  BY <1>0 DEF AInv, WireIsOpen, TypeOK, PlaceOrder, Finish
<1>5. TakenIsDecided'
  BY <1>0 DEF AInv, TakenIsDecided, TypeOK, PlaceOrder, Finish, K, WireIsOpen
<1>6. RejectedIsSafe'
  <2>1. /\ \A d \in Call : K(d)' = K(d) /\ K(d) \in Key
        /\ older' \subseteq older \cup {rows}
        /\ \A k \in Key : rows'[k].outcome = "rejected" => rows[k].outcome = "rejected"
    BY <1>0 DEF PlaceOrder, Finish, K, TypeOK
  <2>2. \A k \in Key : Refused(k) => Refused(k)'
    BY <1>0 DEF PlaceOrder, Finish, AInv, Refused, K, TypeOK
  <2>3. \/ \A d \in Call : co'[d] = "rejecting" => co[d] = "rejecting"
        \/ Refused(K(c))' /\ \A d \in Call : co'[d] = "rejecting" => co[d] = "rejecting" \/ d = c
    <3>1. /\ co[c] = "ready" /\ c \notin wire /\ verdict[c] # "taken" /\ Engaged(c)
          /\ taken' = taken /\ \A d \in Call : d # c => co'[d] = co[d]
      BY <1>0 DEF PlaceOrder, Finish, AInv, WireIsOpen, Engaged, Owner, BeforeSend, TypeOK
    <3>2. CASE Finish(c, "rejecting") /\ wire' = wire
      <4>1. co'[c] = "rejecting"
        BY <1>0, <3>2 DEF Finish, TypeOK
      <4>2. /\ taken[K(c)] = 0
            /\ \A d \in Call : K(d) = K(c) /\ d # c => d \notin wire /\ co[d] \notin BeforeSend
        BY <3>1, AloneUntaken DEF Owner
      <4>3. \A d \in Call : K(d) = K(c) => d \notin wire' /\ co'[d] \notin BeforeSend
        BY <3>1, <3>2, <4>1, <4>2 DEF BeforeSend
      <4>4. Refused(K(c))'
        BY <2>1, <3>1, <4>2, <4>3 DEF Refused
      <4> QED BY <3>1, <4>4
    <3>3. CASE co' = [co EXCEPT ![c] = "sending"]
      BY <1>0, <3>1, <3>3 DEF TypeOK
    <3> QED BY <3>2, <3>3 DEF PlaceOrder
  <2>4. \A j \in jobs' : j.op = "rejected" =>
          j \in jobs \/ (j.call = c /\ co'[c] = "rejecting" /\ co[c] # "rejecting")
    BY <1>0, OutcomeIs DEF PlaceOrder, Finish, TypeOK
  <2>5. reply' = reply
    BY DEF PlaceOrder, Finish
  <2> QED BY <1>0, <2>1, <2>2, <2>3, <2>4, <2>5 DEF AInv, RejectedIsSafe, Says, Job, TypeOK
<1>7. AcceptedIsSafe'
  BY <1>0 DEF AInv, AcceptedIsSafe, TypeOK, Job, Row, PlaceOrder, Finish, Outcome, Says, K
<1>8. ReadyIsDispatched'
  BY <1>0 DEF AInv, ReadyIsDispatched, TypeOK, Job, PlaceOrder, Finish, K
<1>9. OutcomeIsUnderway'
  <2>1. \A d \in Call : d # c => co'[d] = co[d]
    BY <1>0 DEF PlaceOrder, Finish, TypeOK
  <2>2. \A j \in jobs : j.call # c /\ j.op \in Terminal => j \in jobs'
    BY DEF PlaceOrder, Finish
  <2>3. \A j \in jobs' : j.op \in Terminal =>
          j \in jobs \/ (j.call = c /\ co'[c] \in Recording /\ j.op = Outcome(co'[c]))
    BY <1>0, OutcomeIs DEF PlaceOrder, Finish, TypeOK
  <2>4. co'[c] \in Recording => [call |-> c, op |-> Outcome(co'[c])] \in jobs'
    BY <1>0, OutcomeIs DEF PlaceOrder, Finish, TypeOK, AInv, OutcomeIsUnderway
  <2>5. co'[c] \in Owner \cup Recording =>
          co'[c] = co[c] \/ \A j \in jobs : j.call = c => j.op \notin Terminal
    BY <1>0 DEF PlaceOrder, Finish, TypeOK, AInv, OutcomeIsUnderway
  <2> QED BY <1>0, <2>1, <2>2, <2>3, <2>4, <2>5, UnderwayStays DEF AInv, TypeOK
<1>10. OpenRowsAreOwned'
  <2>1. \A d \in Call : co[d] \in Owner \cup Recording => co'[d] \in Owner \cup Recording
    BY <1>0 DEF PlaceOrder, Finish, TypeOK
  <2>2. \A j \in jobs : j.op \in Terminal => j \in jobs'
    BY <1>0 DEF PlaceOrder, Finish
  <2>3. /\ rows' = rows /\ up' = up /\ stranded' = stranded /\ jobs \subseteq Job
        /\ \A d \in Call : K(d)' = K(d)
    BY <1>0 DEF PlaceOrder, K, TypeOK
  <2> QED BY <2>1, <2>2, <2>3, OwnedStays DEF AInv, Job
<1> QED BY <1>1, <1>2, <1>3, <1>4, <1>5, <1>6, <1>7, <1>8, <1>9, <1>10 DEF AInv

\* The broker's answer, or its absence, chooses the statement to record.
LEMMA BrokerAnswersAnswers ==
  ASSUME AInv, IInv', NEW c \in Call, BrokerAnswers(c)
  PROVE  AInv'
<1> USE DEF ledger, broker, ghosts, Goto, Reply
<1>0. TypeOK /\ TypeOK' BY DEF AInv, IInv
<1>1. NewIsFresh'
  BY <1>0 DEF AInv, NewIsFresh, TypeOK, BrokerAnswers, Finish
<1>2. OneEngaged'
  BY <1>0 DEF AInv, OneEngaged, TypeOK, BrokerAnswers, Finish, Engaged, K
<1>3. AbsentIsQuiet'
  BY <1>0 DEF AInv, AbsentIsQuiet, TypeOK, Job, BrokerAnswers, Finish, Engaged, K
<1>4. WireIsOpen'
  BY <1>0 DEF AInv, WireIsOpen, TypeOK, BrokerAnswers, Finish
<1>5. TakenIsDecided'
  BY <1>0 DEF AInv, TakenIsDecided, TypeOK, BrokerAnswers, Finish, K, WireIsOpen
<1>6. RejectedIsSafe'
  <2>1. /\ \A d \in Call : K(d)' = K(d) /\ K(d) \in Key
        /\ older' \subseteq older \cup {rows}
        /\ \A k \in Key : rows'[k].outcome = "rejected" => rows[k].outcome = "rejected"
    BY <1>0 DEF BrokerAnswers, Finish, K, TypeOK
  <2>2. \A k \in Key : Refused(k) => Refused(k)'
    BY <1>0 DEF BrokerAnswers, Finish, AInv, Refused, K, TypeOK
  <2>3. \/ \A d \in Call : co'[d] = "rejecting" => co[d] = "rejecting"
        \/ Refused(K(c))' /\ \A d \in Call : co'[d] = "rejecting" => co[d] = "rejecting" \/ d = c
    BY <1>0, AloneUntaken, OutcomeIs DEF BrokerAnswers, Finish, AInv, Refused, WireIsOpen,
         Engaged, K, TypeOK
  <2>4. \A j \in jobs' : j.op = "rejected" =>
          j \in jobs \/ (j.call = c /\ co'[c] = "rejecting" /\ co[c] # "rejecting")
    BY <1>0, OutcomeIs DEF BrokerAnswers, Finish, TypeOK
  <2>5. reply' = reply
    BY DEF BrokerAnswers, Finish
  <2> QED BY <1>0, <2>1, <2>2, <2>3, <2>4, <2>5 DEF AInv, RejectedIsSafe, Says, Job, TypeOK
<1>7. AcceptedIsSafe'
  BY <1>0, OutcomeIs DEF AInv, AcceptedIsSafe, TypeOK, BrokerAnswers, Finish, Says, K,
       TakenIsDecided
<1>8. ReadyIsDispatched'
  BY <1>0 DEF AInv, ReadyIsDispatched, TypeOK, Job, BrokerAnswers, Finish, K
<1>9. OutcomeIsUnderway'
  <2>1. \A d \in Call : d # c => co'[d] = co[d]
    BY <1>0 DEF BrokerAnswers, Finish, TypeOK
  <2>2. \A j \in jobs : j.call # c /\ j.op \in Terminal => j \in jobs'
    BY DEF BrokerAnswers, Finish
  <2>3. \A j \in jobs' : j.op \in Terminal =>
          j \in jobs \/ (j.call = c /\ co'[c] \in Recording /\ j.op = Outcome(co'[c]))
    BY <1>0, OutcomeIs DEF BrokerAnswers, Finish, TypeOK
  <2>4. co'[c] \in Recording => [call |-> c, op |-> Outcome(co'[c])] \in jobs'
    BY <1>0, OutcomeIs DEF BrokerAnswers, Finish, TypeOK, AInv, OutcomeIsUnderway
  <2>5. co'[c] \in Owner \cup Recording =>
          co'[c] = co[c] \/ \A j \in jobs : j.call = c => j.op \notin Terminal
    BY <1>0 DEF BrokerAnswers, Finish, TypeOK, AInv, OutcomeIsUnderway
  <2> QED BY <1>0, <2>1, <2>2, <2>3, <2>4, <2>5, UnderwayStays DEF AInv, TypeOK
<1>10. OpenRowsAreOwned'
  <2>1. \A d \in Call : co[d] \in Owner \cup Recording => co'[d] \in Owner \cup Recording
    BY <1>0 DEF BrokerAnswers, Finish, TypeOK
  <2>2. \A j \in jobs : j.op \in Terminal => j \in jobs'
    BY <1>0 DEF BrokerAnswers, Finish
  <2>3. /\ rows' = rows /\ up' = up /\ stranded' = stranded /\ jobs \subseteq Job
        /\ \A d \in Call : K(d)' = K(d)
    BY <1>0 DEF BrokerAnswers, K, TypeOK
  <2> QED BY <2>1, <2>2, <2>3, OwnedStays DEF AInv, Job
<1> QED BY <1>1, <1>2, <1>3, <1>4, <1>5, <1>6, <1>7, <1>8, <1>9, <1>10 DEF AInv

\* The outcome is recorded and told: it is what the broker did.
LEMMA FinishRowAnswers ==
  ASSUME AInv, IInv', NEW c \in Call, NEW o \in Terminal, FinishRow(c, o)
  PROVE  AInv'
<1> USE DEF ledger, broker, ghosts, Goto, Reply
<1>0. TypeOK /\ TypeOK' BY DEF AInv, IInv
<1>1. NewIsFresh'
  BY <1>0 DEF AInv, NewIsFresh, TypeOK, FinishRow, Ending
<1>2. OneEngaged'
  BY <1>0 DEF AInv, OneEngaged, TypeOK, FinishRow, Ending, Engaged, K
<1>3. AbsentIsQuiet'
  <2>1. /\ wire' = wire /\ verdict' = verdict /\ jobs' \subseteq jobs
        /\ \A d \in Call : K(d)' = K(d) /\ K(d) \in Key
    BY <1>0 DEF FinishRow, K, TypeOK
  <2>2. \A k \in Key : rows'[k].outcome = "absent" => rows[k].outcome = "absent"
    <3>1. rows' = rows \/ rows' = [rows EXCEPT ![K(c)].outcome = o]
      BY DEF FinishRow, CommitNormal
    <3>2. rows \in [Key -> Row] /\ K(c) \in Key
      BY <1>0, <2>1 DEF TypeOK
    <3> QED BY <3>1, <3>2 DEF Row
  <2>3. \A d \in Call :
          /\ co'[d] \in Owner \cup Recording => co'[d] = co[d]
          /\ reply'[d] = reply[d] \/ co[d] \in Recording
    BY <1>0 DEF FinishRow, TypeOK
  <2> QED BY <2>1, <2>2, <2>3 DEF AInv, AbsentIsQuiet, Engaged
<1>4. WireIsOpen'
  BY <1>0 DEF AInv, WireIsOpen, TypeOK, FinishRow, Ending
<1>5. TakenIsDecided'
  BY <1>0 DEF AInv, TakenIsDecided, TypeOK, FinishRow, Ending, K, WireIsOpen
<1>6. RejectedIsSafe'
  BY <1>0 DEF AInv, RejectedIsSafe, TypeOK, Job, Row, FinishRow, CommitNormal, Ending,
       Says, Refused, K
<1>7. AcceptedIsSafe'
  BY <1>0 DEF AInv, AcceptedIsSafe, TypeOK, Job, Row, FinishRow, CommitNormal, Ending, Says, K
<1>8. ReadyIsDispatched'
  <2>1. jobs' \subseteq jobs /\ jobs \subseteq Job /\ \A d \in Call : K(d)' = K(d) /\ K(d) \in Key
    BY <1>0 DEF FinishRow, K, TypeOK
  <2>2. \A k \in Key : rows'[k].outcome = "claimed" => rows[k].outcome = "claimed"
    <3>1. rows' = rows \/ rows' = [rows EXCEPT ![K(c)].outcome = o]
      BY DEF FinishRow, CommitNormal
    <3>2. rows \in [Key -> Row] /\ K(c) \in Key
      BY <1>0, <2>1 DEF TypeOK
    <3> QED BY <3>1, <3>2 DEF Row
  <2>3. \A d \in Call : co'[d] \in {"ready", "sending", "accepting"} => co'[d] = co[d]
    BY <1>0 DEF FinishRow, TypeOK
  <2> QED BY <2>1, <2>2, <2>3 DEF AInv, ReadyIsDispatched, Job
<1>9. OutcomeIsUnderway'
  <2>1. \A d \in Call : d # c => co'[d] = co[d]
    BY <1>0 DEF FinishRow, CommitNormal, Ending, TypeOK
  <2>2. \A j \in jobs : j.call # c /\ j.op \in Terminal => j \in jobs'
    BY DEF FinishRow, CommitNormal, Ending
  <2>3. \A j \in jobs' : j.op \in Terminal =>
          j \in jobs \/ (j.call = c /\ co'[c] \in Recording /\ j.op = Outcome(co'[c]))
    BY <1>0, OutcomeIs DEF FinishRow, CommitNormal, Ending, TypeOK
  <2>4. co'[c] \in Recording => [call |-> c, op |-> Outcome(co'[c])] \in jobs'
    BY <1>0, OutcomeIs DEF FinishRow, CommitNormal, Ending, TypeOK, AInv, OutcomeIsUnderway
  <2>5. co'[c] \in Owner \cup Recording =>
          co'[c] = co[c] \/ \A j \in jobs : j.call = c => j.op \notin Terminal
    BY <1>0 DEF FinishRow, CommitNormal, Ending, TypeOK, AInv, OutcomeIsUnderway
  <2> QED BY <1>0, <2>1, <2>2, <2>3, <2>4, <2>5, UnderwayStays DEF AInv, TypeOK
<1>10. OpenRowsAreOwned'
  <2>1. /\ up' = up /\ stranded' = stranded /\ jobs \subseteq Job
        /\ \A d \in Call : K(d)' = K(d) /\ K(d) \in Key
    BY <1>0 DEF FinishRow, K, TypeOK
  <2>2. \A k \in Key : rows'[k].outcome \in Open => rows[k].outcome \in Open /\ k # K(c)
    <3>1. \/ rows' = [rows EXCEPT ![K(c)].outcome = o]
          \/ rows' = rows /\ rows[K(c)].outcome \notin Open
          \/ o = "accepted" /\ rows[K(c)].outcome = "claimed"
      BY DEF FinishRow, CommitNormal
    <3>2. ~(o = "accepted" /\ rows[K(c)].outcome = "claimed")
      BY DEF FinishRow, AInv, ReadyIsDispatched
    <3> QED BY <1>0, <2>1, <3>1, <3>2 DEF TypeOK, Row
  <2>3. \A d \in Call : co[d] \in Owner \cup Recording => co'[d] = co[d] \/ d = c
    BY <1>0 DEF FinishRow, TypeOK
  <2>4. \A j \in jobs : j \in jobs' \/ j.call = c
    BY DEF FinishRow
  <2> QED BY <2>1, <2>2, <2>3, <2>4, OwnedStays DEF AInv, Job
<1> QED BY <1>1, <1>2, <1>3, <1>4, <1>5, <1>6, <1>7, <1>8, <1>9, <1>10 DEF AInv

\* A statement of an outcome that fails strands the row and tells "unknown".
LEMMA FinishFailsAnswers ==
  ASSUME AInv, IInv', NEW c \in Call, NEW o \in Terminal, FinishFails(c, o)
  PROVE  AInv'
<1> USE DEF ledger, broker, ghosts, Goto, Reply
<1>0. TypeOK /\ TypeOK' BY DEF AInv, IInv
<1>1. NewIsFresh'
  BY <1>0 DEF AInv, NewIsFresh, TypeOK, FinishFails, Ending
<1>2. OneEngaged'
  BY <1>0 DEF AInv, OneEngaged, TypeOK, FinishFails, Ending, Engaged, K
<1>3. AbsentIsQuiet'
  BY <1>0 DEF AInv, AbsentIsQuiet, TypeOK, Job, FinishFails, Ending, Engaged, K
<1>4. WireIsOpen'
  BY <1>0 DEF AInv, WireIsOpen, TypeOK, FinishFails, Ending
<1>5. TakenIsDecided'
  BY <1>0 DEF AInv, TakenIsDecided, TypeOK, FinishFails, Ending, K, WireIsOpen
<1>6. RejectedIsSafe'
  BY <1>0 DEF AInv, RejectedIsSafe, TypeOK, Job, FinishFails, Ending, Says, Refused, K
<1>7. AcceptedIsSafe'
  BY <1>0 DEF AInv, AcceptedIsSafe, TypeOK, Job, FinishFails, Ending, Says, K
<1>8. ReadyIsDispatched'
  BY <1>0 DEF AInv, ReadyIsDispatched, TypeOK, Job, FinishFails, Ending, K
<1>9. OutcomeIsUnderway'
  <2>1. \A d \in Call : d # c => co'[d] = co[d]
    BY <1>0 DEF FinishFails, Ending, TypeOK
  <2>2. \A j \in jobs : j.call # c /\ j.op \in Terminal => j \in jobs'
    BY DEF FinishFails, Ending
  <2>3. \A j \in jobs' : j.op \in Terminal =>
          j \in jobs \/ (j.call = c /\ co'[c] \in Recording /\ j.op = Outcome(co'[c]))
    BY <1>0, OutcomeIs DEF FinishFails, Ending, TypeOK
  <2>4. co'[c] \in Recording => [call |-> c, op |-> Outcome(co'[c])] \in jobs'
    BY <1>0, OutcomeIs DEF FinishFails, Ending, TypeOK, AInv, OutcomeIsUnderway
  <2>5. co'[c] \in Owner \cup Recording =>
          co'[c] = co[c] \/ \A j \in jobs : j.call = c => j.op \notin Terminal
    BY <1>0 DEF FinishFails, Ending, TypeOK, AInv, OutcomeIsUnderway
  <2> QED BY <1>0, <2>1, <2>2, <2>3, <2>4, <2>5, UnderwayStays DEF AInv, TypeOK
<1>10. OpenRowsAreOwned'
  BY <1>0 DEF AInv, OpenRowsAreOwned, TypeOK, Job, FinishFails, Ending, K
<1> QED BY <1>1, <1>2, <1>3, <1>4, <1>5, <1>6, <1>7, <1>8, <1>9, <1>10 DEF AInv

\* A request arrives and starts its work.
LEMMA ArriveAnswers ==
  ASSUME AInv, IInv', NEW c \in Call, Arrive(c)
  PROVE  AInv'
<1> USE DEF ledger, broker, ghosts, Goto, Reply
<1>0. TypeOK /\ TypeOK' BY DEF AInv, IInv
<1>1. NewIsFresh'
  BY <1>0 DEF AInv, NewIsFresh, TypeOK, Arrive
<1>2. OneEngaged'
  <2>1. /\ c \notin wire /\ verdict[c] = "none" /\ reply[c] = "none" /\ co[c] = "new"
        /\ \A j \in jobs : j.call # c
    BY DEF Arrive, AInv, NewIsFresh
  <2>2. \A d \in Call : d # c => K(d)' = K(d) /\ co'[d] = co[d]
    BY <1>0 DEF Arrive, K, TypeOK
  <2>3. /\ co'[c] = "authorize" /\ K(c)' \in Key
        /\ UNCHANGED <<rows, older, jobs, reply, wire, verdict, taken, up, stranded>>
    BY <1>0 DEF Arrive, K, TypeOK
  <2> QED BY <1>0, <2>1, <2>2, <2>3 DEF AInv, OneEngaged, Engaged
<1>3. AbsentIsQuiet'
  <2>1. /\ c \notin wire /\ verdict[c] = "none" /\ reply[c] = "none" /\ co[c] = "new"
        /\ \A j \in jobs : j.call # c
    BY DEF Arrive, AInv, NewIsFresh
  <2>2. \A d \in Call : d # c => K(d)' = K(d) /\ co'[d] = co[d]
    BY <1>0 DEF Arrive, K, TypeOK
  <2>3. /\ co'[c] = "authorize" /\ K(c)' \in Key
        /\ UNCHANGED <<rows, older, jobs, reply, wire, verdict, taken, up, stranded>>
    BY <1>0 DEF Arrive, K, TypeOK
  <2> QED BY <1>0, <2>1, <2>2, <2>3 DEF AInv, AbsentIsQuiet, Engaged
<1>4. WireIsOpen'
  BY <1>0 DEF AInv, WireIsOpen, TypeOK, Arrive
<1>5. TakenIsDecided'
  <2>1. /\ c \notin wire /\ verdict[c] = "none" /\ reply[c] = "none" /\ co[c] = "new"
        /\ \A j \in jobs : j.call # c
    BY DEF Arrive, AInv, NewIsFresh
  <2>2. \A d \in Call : d # c => K(d)' = K(d) /\ co'[d] = co[d]
    BY <1>0 DEF Arrive, K, TypeOK
  <2>3. /\ co'[c] = "authorize" /\ K(c)' \in Key
        /\ UNCHANGED <<rows, older, jobs, reply, wire, verdict, taken, up, stranded>>
    BY <1>0 DEF Arrive, K, TypeOK
  <2> QED BY <1>0, <2>1, <2>2, <2>3 DEF AInv, TakenIsDecided
<1>6. RejectedIsSafe'
  <2>1. /\ c \notin wire /\ verdict[c] = "none" /\ reply[c] = "none" /\ co[c] = "new"
        /\ \A j \in jobs : j.call # c
    BY DEF Arrive, AInv, NewIsFresh
  <2>2. \A d \in Call : d # c => K(d)' = K(d) /\ co'[d] = co[d]
    BY <1>0 DEF Arrive, K, TypeOK
  <2>3. /\ co'[c] = "authorize" /\ K(c)' \in Key
        /\ UNCHANGED <<rows, older, jobs, reply, wire, verdict, taken, up, stranded>>
    BY <1>0 DEF Arrive, K, TypeOK

  <2>4. \A k \in Key : Says(k, "rejected", "rejecting")' => Says(k, "rejected", "rejecting")
    BY <1>0, <2>1, <2>2, <2>3 DEF Says, TypeOK, Job
  <2>5. \A k \in Key : Refused(k) => Refused(k)'
    BY <2>1, <2>2, <2>3 DEF Refused
  <2> QED BY <2>4, <2>5 DEF AInv, RejectedIsSafe
<1>7. AcceptedIsSafe'
  <2>1. /\ c \notin wire /\ verdict[c] = "none" /\ reply[c] = "none" /\ co[c] = "new"
        /\ \A j \in jobs : j.call # c
    BY DEF Arrive, AInv, NewIsFresh
  <2>2. \A d \in Call : d # c => K(d)' = K(d) /\ co'[d] = co[d]
    BY <1>0 DEF Arrive, K, TypeOK
  <2>3. /\ co'[c] = "authorize" /\ K(c)' \in Key
        /\ UNCHANGED <<rows, older, jobs, reply, wire, verdict, taken, up, stranded>>
    BY <1>0 DEF Arrive, K, TypeOK
  <2> QED BY <1>0, <2>1, <2>2, <2>3 DEF AInv, AcceptedIsSafe, Says, TypeOK, Job
<1>8. ReadyIsDispatched'
  <2>1. /\ c \notin wire /\ verdict[c] = "none" /\ reply[c] = "none" /\ co[c] = "new"
        /\ \A j \in jobs : j.call # c
    BY DEF Arrive, AInv, NewIsFresh
  <2>2. \A d \in Call : d # c => K(d)' = K(d) /\ co'[d] = co[d]
    BY <1>0 DEF Arrive, K, TypeOK
  <2>3. /\ co'[c] = "authorize" /\ K(c)' \in Key
        /\ UNCHANGED <<rows, older, jobs, reply, wire, verdict, taken, up, stranded>>
    BY <1>0 DEF Arrive, K, TypeOK
  <2> QED BY <1>0, <2>1, <2>2, <2>3 DEF AInv, ReadyIsDispatched, TypeOK, Job
<1>9. OutcomeIsUnderway'
  BY <1>0 DEF AInv, OutcomeIsUnderway, TypeOK, Job, Arrive, Outcome
<1>10. OpenRowsAreOwned'
  <2>1. /\ c \notin wire /\ verdict[c] = "none" /\ reply[c] = "none" /\ co[c] = "new"
        /\ \A j \in jobs : j.call # c
    BY DEF Arrive, AInv, NewIsFresh
  <2>2. \A d \in Call : d # c => K(d)' = K(d) /\ co'[d] = co[d]
    BY <1>0 DEF Arrive, K, TypeOK
  <2>3. /\ co'[c] = "authorize" /\ K(c)' \in Key
        /\ UNCHANGED <<rows, older, jobs, reply, wire, verdict, taken, up, stranded>>
    BY <1>0 DEF Arrive, K, TypeOK
  <2> QED BY <1>0, <2>1, <2>2, <2>3, OwnedStays DEF AInv, TypeOK, Job
<1> QED BY <1>1, <1>2, <1>3, <1>4, <1>5, <1>6, <1>7, <1>8, <1>9, <1>10 DEF AInv

\* The broker takes or refuses a request on the wire: nobody has told of it.
LEMMA BrokerDecidesAnswers ==
  ASSUME AInv, IInv', NEW c \in Call, BrokerDecides(c)
  PROVE  AInv'
<1> USE DEF ledger, broker, ghosts, Goto, Reply
<1>0. TypeOK /\ TypeOK' BY DEF AInv, IInv
<1>1. NewIsFresh'
  BY <1>0 DEF AInv, NewIsFresh, TypeOK, BrokerDecides
<1>2. OneEngaged'
  BY <1>0 DEF AInv, OneEngaged, TypeOK, BrokerDecides, Engaged, K
<1>3. AbsentIsQuiet'
  BY <1>0 DEF AInv, AbsentIsQuiet, TypeOK, Job, BrokerDecides, Engaged, K
<1>4. WireIsOpen'
  BY <1>0 DEF AInv, WireIsOpen, TypeOK, BrokerDecides
<1>5. TakenIsDecided'
  <2>1. taken[K(c)] = 0 /\ verdict[c] = "none" /\ K(c) \in Key
    BY <1>0, AloneUntaken DEF BrokerDecides, AInv, WireIsOpen, Engaged, K, TypeOK
  <2>2. \A d \in Call : K(d)' = K(d)
    BY DEF BrokerDecides, K
  <2>3. CASE verdict' = [verdict EXCEPT ![c] = "taken"] /\ taken' = [taken EXCEPT ![K(c)] = @ + 1]
    <3>1. /\ taken'[K(c)] = 1 /\ \A k \in Key : k # K(c) => taken'[k] = taken[k]
          /\ verdict'[c] = "taken" /\ \A d \in Call : d # c => verdict'[d] = verdict[d]
      BY <1>0, <2>1, <2>3 DEF TypeOK
    <3>2. \A d \in Call : K(d) \in Key
      BY <1>0 DEF K, TypeOK
    <3> QED BY <2>1, <2>2, <3>1, <3>2 DEF AInv, TakenIsDecided
  <2>4. CASE verdict' = [verdict EXCEPT ![c] = "refused"] /\ taken' = taken
    BY <1>0, <2>1, <2>2, <2>4 DEF AInv, TakenIsDecided, TypeOK
  <2> QED BY <2>3, <2>4 DEF BrokerDecides
<1>6. RejectedIsSafe'
  BY <1>0 DEF AInv, RejectedIsSafe, TypeOK, Job, BrokerDecides, Says, Refused, K
<1>7. AcceptedIsSafe'
  <2>1. taken[K(c)] = 0 /\ K(c) \in Key
    BY <1>0, AloneUntaken DEF BrokerDecides, AInv, WireIsOpen, Engaged, K, TypeOK
  <2>2. \A k \in Key : k # K(c) => taken'[k] = taken[k]
    BY <1>0 DEF BrokerDecides, TypeOK
  <2>3. \A k \in Key : Says(k, "accepted", "accepting")' => Says(k, "accepted", "accepting")
    BY DEF BrokerDecides, Says, K
  <2> QED BY <2>1, <2>2, <2>3 DEF AInv, AcceptedIsSafe
<1>8. ReadyIsDispatched'
  BY <1>0 DEF AInv, ReadyIsDispatched, TypeOK, Job, BrokerDecides, K
<1>9. OutcomeIsUnderway'
  BY <1>0 DEF AInv, OutcomeIsUnderway, TypeOK, Job, BrokerDecides, Outcome
<1>10. OpenRowsAreOwned'
  BY <1>0 DEF AInv, OpenRowsAreOwned, TypeOK, Job, BrokerDecides, K
<1> QED BY <1>1, <1>2, <1>3, <1>4, <1>5, <1>6, <1>7, <1>8, <1>9, <1>10 DEF AInv

\* A cancelled owner records "unknown"; any other call is only cut off.
LEMMA CancelAnswers ==
  ASSUME AInv, IInv', NEW c \in Call, Cancel(c)
  PROVE  AInv'
<1> USE DEF ledger, broker, ghosts, Goto, Reply
<1>0. TypeOK /\ TypeOK' BY DEF AInv, IInv
<1>1. NewIsFresh'
  BY <1>0 DEF AInv, NewIsFresh, TypeOK, Cancel, Awaited
<1>2. OneEngaged'
  BY <1>0 DEF AInv, OneEngaged, TypeOK, Cancel, Awaited, Engaged, K
<1>3. AbsentIsQuiet'
  BY <1>0 DEF AInv, AbsentIsQuiet, TypeOK, Job, Cancel, Awaited, Engaged, K
<1>4. WireIsOpen'
  BY <1>0 DEF AInv, WireIsOpen, TypeOK, Cancel, Awaited
<1>5. TakenIsDecided'
  BY <1>0 DEF AInv, TakenIsDecided, TypeOK, Cancel, Awaited, K, WireIsOpen
<1>6. RejectedIsSafe'
  BY <1>0 DEF AInv, RejectedIsSafe, TypeOK, Job, Cancel, Awaited, Says, Refused, K
<1>7. AcceptedIsSafe'
  BY <1>0 DEF AInv, AcceptedIsSafe, TypeOK, Job, Cancel, Awaited, Says, K
<1>8. ReadyIsDispatched'
  BY <1>0 DEF AInv, ReadyIsDispatched, TypeOK, Job, Cancel, Awaited, K
<1>9. OutcomeIsUnderway'
  <2>1. PICK mine \in {{}, Awaited(c)} :
          \/ /\ co[c] \in Owner /\ co' = [co EXCEPT ![c] = "interrupted"]
             /\ jobs' = (jobs \ mine) \cup {[call |-> c, op |-> "unknown"]}
          \/ co' = [co EXCEPT ![c] = "done"] /\ jobs' = jobs \ mine
    BY DEF Cancel
  <2>2. \A j \in mine : j.call = c
    BY DEF Awaited
  <2>3. \A d \in Call : d # c => co'[d] = co[d]
    BY <1>0, <2>1 DEF TypeOK
  <2>4. \A j \in jobs : j.call # c => j \in jobs'
    BY <2>1, <2>2
  <2>5. co'[c] \in {"done", "interrupted"} /\ (co'[c] = "interrupted" => co[c] \in Owner)
    BY <1>0, <2>1 DEF TypeOK
  <2>6. \A j \in jobs' :
          j \in jobs \/ (co'[c] = "interrupted" /\ j = [call |-> c, op |-> "unknown"])
    BY <1>0, <2>1 DEF TypeOK
  <2>7. co'[c] = "interrupted" => [call |-> c, op |-> "unknown"] \in jobs'
    BY <1>0, <2>1 DEF TypeOK
  <2>8. co[c] \in Owner => \A j \in jobs : j.call = c => j.op \notin Terminal
    BY DEF AInv, OutcomeIsUnderway
  <2>9. \A j \in jobs' :
          j \in jobs \/ (j.call = c /\ co'[c] \in Recording /\ j.op = Outcome(co'[c]))
    BY <2>5, <2>6, OutcomeIs
  <2>10. co'[c] \in Recording => [call |-> c, op |-> Outcome(co'[c])] \in jobs'
    BY <2>5, <2>7, OutcomeIs
  <2>11. OutcomeIsUnderway /\ jobs \subseteq Job /\ jobs' \subseteq Job
    BY <1>0 DEF AInv, TypeOK
  <2> QED BY <2>3, <2>4, <2>5, <2>8, <2>9, <2>10, <2>11, UnderwayStays
<1>10. OpenRowsAreOwned'
  <2>1. /\ UNCHANGED <<rows, up>> /\ stranded \subseteq stranded' /\ jobs \subseteq Job
        /\ \A d \in Call : K(d)' = K(d)
    BY <1>0 DEF Cancel, K, TypeOK
  <2>2. \A d \in Call : d # c => co'[d] = co[d]
    BY <1>0 DEF Cancel, TypeOK
  <2>3. \A j \in jobs : j.call # c => j \in jobs'
    BY DEF Cancel, Awaited
  <2>4. CASE co[c] \in Owner
    <3>1. co'[c] = "interrupted" /\ \A j \in jobs : j.call = c => j.op \notin Terminal
      BY <1>0, <2>4 DEF Cancel, TypeOK, AInv, OutcomeIsUnderway
    <3> QED BY <2>1, <2>2, <2>3, <3>1, OwnedStays DEF AInv, Job
  <2>5. CASE co[c] \in Recording /\ stranded' = stranded \cup {K(c)}
    BY <2>1, <2>2, <2>3, <2>5, OwnedStays DEF AInv, Job
  <2>6. CASE co[c] \notin Owner /\ stranded' = stranded
    <3>1. PICK mine \in {{}, Awaited(c)} :
               /\ jobs' = jobs \ mine
               /\ (co[c] \in Recording => mine = {} \/ K(c) \in stranded)
      BY <2>6 DEF Cancel
    <3>2. CASE co[c] \in Recording /\ K(c) \in stranded
      BY <2>1, <2>2, <2>3, <3>2, OwnedStays DEF AInv, Job
    <3>3. CASE co[c] \in Recording /\ mine = {}
      <4>1. [call |-> c, op |-> Outcome(co[c])] \in jobs' /\ Outcome(co[c]) \in Terminal
        BY <3>1, <3>3, OutcomeIs DEF AInv, OutcomeIsUnderway
      <4>2. \A d \in Call :
              co[d] \in Owner \cup Recording => co'[d] \in Owner \cup Recording \/ d = c
        BY <2>2
      <4>3. jobs' = jobs
        BY <3>1, <3>3
      <4>4. \A j \in jobs : j.op \in Terminal => j \in jobs' /\ K(j.call)' = K(j.call)
        BY <2>1, <4>3 DEF Job
      <4> QED BY <2>1, <4>1, <4>2, <4>4 DEF AInv, OpenRowsAreOwned
    <3>4. CASE co[c] \notin Recording
      <4>1. \A j \in mine : j.op \notin Terminal
        <5>1. co[c] \in {"authorize", "claiming"}
          BY <2>6, <3>4 DEF Cancel
        <5>2. CASE co[c] = "claiming"
          BY <5>2 DEF Awaited
        <5>3. CASE co[c] = "authorize"
          BY <5>3 DEF Awaited, AInv, NewIsFresh
        <5> QED BY <5>1, <5>2, <5>3
      <4>2. \A j \in jobs : j.op \in Terminal => j \in jobs'
        BY <3>1, <4>1
      <4>3. \A d \in Call : co[d] \in Owner \cup Recording => co'[d] \in Owner \cup Recording
        BY <2>2, <2>6, <3>4
      <4> QED BY <2>1, <4>2, <4>3, OwnedStays DEF AInv, Job
    <3> QED BY <3>1, <3>2, <3>3, <3>4
  <2> QED BY <2>4, <2>5, <2>6 DEF Cancel
<1> QED BY <1>1, <1>2, <1>3, <1>4, <1>5, <1>6, <1>7, <1>8, <1>9, <1>10 DEF AInv

\* A crash ends every call and leaves the ledger.
LEMMA CrashAnswers ==
  ASSUME AInv, IInv', Crash
  PROVE  AInv'
<1> USE DEF ledger, broker, ghosts, Goto, Reply
<1>0. TypeOK /\ TypeOK' BY DEF AInv, IInv
<1>1. NewIsFresh'
  BY <1>0 DEF AInv, NewIsFresh, TypeOK, Crash, Down
<1>2. OneEngaged'
  BY <1>0 DEF AInv, OneEngaged, TypeOK, Crash, Down, Engaged, K
<1>3. AbsentIsQuiet'
  BY <1>0 DEF AInv, AbsentIsQuiet, TypeOK, Job, Crash, Down, Engaged, K
<1>4. WireIsOpen'
  BY <1>0 DEF AInv, WireIsOpen, TypeOK, Crash, Down
<1>5. TakenIsDecided'
  BY <1>0 DEF AInv, TakenIsDecided, TypeOK, Crash, Down, K, WireIsOpen
<1>6. RejectedIsSafe'
  BY <1>0 DEF AInv, RejectedIsSafe, TypeOK, Job, Crash, Down, Says, Refused, K
<1>7. AcceptedIsSafe'
  BY <1>0 DEF AInv, AcceptedIsSafe, TypeOK, Job, Crash, Down, Says, K
<1>8. ReadyIsDispatched'
  BY <1>0 DEF AInv, ReadyIsDispatched, TypeOK, Job, Crash, Down, K
<1>9. OutcomeIsUnderway'
  BY <1>0 DEF AInv, OutcomeIsUnderway, TypeOK, Job, Crash, Down, Outcome
<1>10. OpenRowsAreOwned'
  BY <1>0 DEF AInv, OpenRowsAreOwned, TypeOK, Job, Crash, Down, K
<1> QED BY <1>1, <1>2, <1>3, <1>4, <1>5, <1>6, <1>7, <1>8, <1>9, <1>10 DEF AInv

\* A power loss brings back an earlier ledger image: what it says was true.
LEMMA PowerLossAnswers ==
  ASSUME AInv, IInv', PowerLoss
  PROVE  AInv'
<1> USE DEF ledger, broker, ghosts, Goto, Reply
<1>0. TypeOK /\ TypeOK' BY DEF AInv, IInv
<1>1. NewIsFresh'
  BY <1>0 DEF AInv, NewIsFresh, TypeOK, PowerLoss, Down
<1>2. OneEngaged'
  BY <1>0 DEF AInv, OneEngaged, TypeOK, PowerLoss, Down, Engaged, K
<1>3. AbsentIsQuiet'
  <2>1. \A k \in Key : rows'[k].outcome = "absent" => rows[k].outcome = "absent"
    BY DEF PowerLoss, AInv, IInv, ClaimsAreDurable
  <2>2. /\ wire' = wire /\ verdict' = verdict /\ jobs' = {}
        /\ \A d \in Call : K(d)' = K(d) /\ K(d) \in Key
    BY <1>0 DEF PowerLoss, Down, K, TypeOK
  <2>3. \A d \in Call : co'[d] \notin Owner \cup Recording
                       /\ (reply'[d] = "rejected" => reply[d] = "rejected")
    BY <1>0 DEF PowerLoss, Down, TypeOK
  <2> QED BY <2>1, <2>2, <2>3 DEF AInv, AbsentIsQuiet, Engaged
<1>4. WireIsOpen'
  BY <1>0 DEF AInv, WireIsOpen, TypeOK, PowerLoss, Down
<1>5. TakenIsDecided'
  BY <1>0 DEF AInv, TakenIsDecided, TypeOK, PowerLoss, Down, K, WireIsOpen
<1>6. RejectedIsSafe'
  BY <1>0 DEF AInv, RejectedIsSafe, TypeOK, Job, PowerLoss, Down, Says, Refused, K
<1>7. AcceptedIsSafe'
  BY <1>0 DEF AInv, AcceptedIsSafe, TypeOK, Job, PowerLoss, Down, Says, K
<1>8. ReadyIsDispatched'
  BY <1>0 DEF AInv, ReadyIsDispatched, TypeOK, Job, PowerLoss, Down, K
<1>9. OutcomeIsUnderway'
  BY <1>0 DEF AInv, OutcomeIsUnderway, TypeOK, Job, PowerLoss, Down, Outcome
<1>10. OpenRowsAreOwned'
  BY <1>0 DEF AInv, OpenRowsAreOwned, TypeOK, Job, PowerLoss, Down, K
<1> QED BY <1>1, <1>2, <1>3, <1>4, <1>5, <1>6, <1>7, <1>8, <1>9, <1>10 DEF AInv

\* Recovery turns incomplete rows into "unknown", or strands them.
LEMMA RestartAnswers ==
  ASSUME AInv, IInv', Restart
  PROVE  AInv'
<1> USE DEF ledger, broker, ghosts, Goto, Reply
<1>0. TypeOK /\ TypeOK' BY DEF AInv, IInv
<1>1. NewIsFresh'
  BY <1>0 DEF AInv, NewIsFresh, TypeOK, Restart
<1>2. OneEngaged'
  BY <1>0 DEF AInv, OneEngaged, TypeOK, Restart, Engaged, K
<1>3. AbsentIsQuiet'
  BY <1>0 DEF AInv, AbsentIsQuiet, TypeOK, Job, Row, Restart, CommitFull, Engaged, K
<1>4. WireIsOpen'
  BY <1>0 DEF AInv, WireIsOpen, TypeOK, Restart
<1>5. TakenIsDecided'
  BY <1>0 DEF AInv, TakenIsDecided, TypeOK, Restart, K, WireIsOpen
<1>6. RejectedIsSafe'
  BY <1>0 DEF AInv, RejectedIsSafe, TypeOK, Job, Row, Restart, CommitFull, Says, Refused, K
<1>7. AcceptedIsSafe'
  BY <1>0 DEF AInv, AcceptedIsSafe, TypeOK, Job, Row, Restart, CommitFull, Says, K
<1>8. ReadyIsDispatched'
  <2>1. UNCHANGED <<co, jobs, req>> /\ jobs \subseteq Job /\ \A d \in Call : K(d) \in Key
    BY <1>0 DEF Restart, K, TypeOK
  <2>2. \A k \in Key : rows'[k].outcome = "claimed" => rows[k].outcome = "claimed"
    BY <1>0, RowsRecovered DEF Restart, CommitFull, TypeOK
  <2> QED BY <2>1, <2>2 DEF AInv, ReadyIsDispatched, K, Job
<1>9. OutcomeIsUnderway'
  BY <1>0 DEF AInv, OutcomeIsUnderway, TypeOK, Job, Restart, CommitFull, Outcome
<1>10. OpenRowsAreOwned'
  BY <1>0 DEF AInv, OpenRowsAreOwned, TypeOK, Job, Row, Restart, CommitFull, K
<1> QED BY <1>1, <1>2, <1>3, <1>4, <1>5, <1>6, <1>7, <1>8, <1>9, <1>10 DEF AInv

\* Retention forgets a settled key and everything about it.
LEMMA PruneAnswers ==
  ASSUME AInv, IInv', NEW k \in Key, Prune(k)
  PROVE  AInv'
<1> USE DEF ledger, broker, ghosts, Goto, Reply
<1>0. TypeOK /\ TypeOK' BY DEF AInv, IInv
<1>1. NewIsFresh'
  BY <1>0 DEF AInv, NewIsFresh, TypeOK, Prune
<1>2. OneEngaged'
  BY <1>0 DEF AInv, OneEngaged, TypeOK, Prune, Engaged, K
<1>3. AbsentIsQuiet'
  BY <1>0 DEF AInv, AbsentIsQuiet, TypeOK, Job, Prune, CommitFull, Engaged, K
<1>4. WireIsOpen'
  BY <1>0 DEF AInv, WireIsOpen, TypeOK, Prune
<1>5. TakenIsDecided'
  BY <1>0 DEF AInv, TakenIsDecided, TypeOK, Prune, K, WireIsOpen
<1>6. RejectedIsSafe'
  BY <1>0 DEF AInv, RejectedIsSafe, TypeOK, Job, Prune, CommitFull, Says, Refused, K
<1>7. AcceptedIsSafe'
  BY <1>0 DEF AInv, AcceptedIsSafe, TypeOK, Job, Prune, CommitFull, Says, K
<1>8. ReadyIsDispatched'
  BY <1>0 DEF AInv, ReadyIsDispatched, TypeOK, Job, Prune, CommitFull, K
<1>9. OutcomeIsUnderway'
  BY <1>0 DEF AInv, OutcomeIsUnderway, TypeOK, Job, Prune, CommitFull, Outcome
<1>10. OpenRowsAreOwned'
  <2>1. \A i \in Key : rows'[i].outcome \in Open => rows[i].outcome \in Open /\ i # k
    BY <1>0 DEF Prune, CommitFull, TypeOK, Row
  <2>2. /\ UNCHANGED <<up, jobs>> /\ stranded' = stranded \ {k} /\ jobs \subseteq Job
        /\ \A d \in Call : K(d)' = K(d) /\ K(d) \in Key
    BY <1>0 DEF Prune, K, TypeOK
  <2>3. \A d \in Call : K(d) # k => co'[d] = co[d]
    BY <1>0 DEF Prune, TypeOK
  <2> QED BY <2>1, <2>2, <2>3, OwnedStays DEF AInv, Job
<1> QED BY <1>1, <1>2, <1>3, <1>4, <1>5, <1>6, <1>7, <1>8, <1>9, <1>10 DEF AInv

\* A step that leaves all of this alone keeps all of it.
LEMMA QuietAnswers ==
  ASSUME AInv, IInv',
         UNCHANGED <<rows, older, jobs, co, req, reply, wire, verdict, taken, up, stranded>>
  PROVE  AInv'
<1>0. \A c \in Call : K(c)' = K(c) /\ (Engaged(c)' <=> Engaged(c))
  BY DEF K, Engaged
<1>1. NewIsFresh' /\ OneEngaged' /\ AbsentIsQuiet' /\ WireIsOpen' /\ TakenIsDecided'
  BY <1>0 DEF AInv, NewIsFresh, OneEngaged, AbsentIsQuiet, WireIsOpen, TakenIsDecided, K,
       Engaged
<1>2. RejectedIsSafe' /\ AcceptedIsSafe'
  BY <1>0 DEF AInv, RejectedIsSafe, AcceptedIsSafe, Says, Refused, K
<1>3. ReadyIsDispatched' /\ OutcomeIsUnderway' /\ OpenRowsAreOwned'
  BY <1>0 DEF AInv, ReadyIsDispatched, OutcomeIsUnderway, OpenRowsAreOwned, Outcome, K
<1> QED BY <1>1, <1>2, <1>3 DEF AInv

-----------------------------------------------------------------------------
(* The invariant of the answers is inductive *)

\* A step of a call's program keeps the answers true.
LEMMA ProgramAnswers ==
  ASSUME AInv, IInv', NEW c \in Call, Program(c)
  PROVE  AInv'
<1>1. ASSUME NEW o \in Terminal, FinishRow(c, o)
      PROVE  AInv'
  BY <1>1, FinishRowAnswers
<1>2. ASSUME NEW o \in Terminal, FinishFails(c, o)
      PROVE  AInv'
  BY <1>2, FinishFailsAnswers
<1>3. CASE Check(c) \/ Resolve(c) \/ Authorize2(c)
  BY <1>3, StepAnswers DEF Check, Resolve, Authorize2
<1> QED
  BY <1>1, <1>2, <1>3, AuthorizeAnswers, ClaimRowAnswers, ClaimFailsAnswers, Check2Answers,
     DispatchRowAnswers, DispatchFailsAnswers, PlaceOrderAnswers, BrokerAnswersAnswers
  DEF Program

\* Every step keeps the answers true.
LEMMA NextAnswers ==
  ASSUME AInv, [Next]_vars
  PROVE  AInv'
<1>0. IInv'
  BY NextKeeps DEF AInv
<1>1. ASSUME NEW c \in Call, Program(c) \/ Arrive(c) \/ BrokerDecides(c) \/ Cancel(c)
      PROVE  AInv'
  BY <1>0, <1>1, ProgramAnswers, ArriveAnswers, BrokerDecidesAnswers, CancelAnswers
<1>2. CASE FlipGate \/ UNCHANGED vars
  BY <1>0, <1>2, QuietAnswers DEF FlipGate, vars, ledger, broker, ghosts
<1>3. CASE Crash \/ PowerLoss \/ Restart
  BY <1>0, <1>3, CrashAnswers, PowerLossAnswers, RestartAnswers
<1>4. ASSUME NEW k \in Key, Prune(k)
      PROVE  AInv'
  BY <1>0, <1>4, PruneAnswers
<1> QED BY <1>1, <1>2, <1>3, <1>4 DEF Next

\* Nothing has arrived, been said or been taken at first.
LEMMA InitAnswers == Init => AInv
<1> SUFFICES ASSUME Init PROVE AInv
  OBVIOUS
<1>1. IInv /\ TypeOK
  BY InitKeeps DEF IInv
<1>2. NewIsFresh /\ OneEngaged /\ AbsentIsQuiet /\ WireIsOpen /\ TakenIsDecided
  BY <1>1 DEF Init, NewIsFresh, OneEngaged, AbsentIsQuiet, WireIsOpen, TakenIsDecided, Engaged,
              TypeOK, K
<1>3. RejectedIsSafe /\ AcceptedIsSafe
  BY <1>1 DEF Init, RejectedIsSafe, AcceptedIsSafe, Says, TypeOK, K
<1>4. ReadyIsDispatched /\ OutcomeIsUnderway /\ OpenRowsAreOwned
  BY <1>1 DEF Init, ReadyIsDispatched, OutcomeIsUnderway, OpenRowsAreOwned, TypeOK, K
<1> QED BY <1>1, <1>2, <1>3, <1>4 DEF AInv

\* The strengthened invariant holds in every reachable state.
THEOREM AnswersInvariant == Spec => []AInv
<1>1. AInv /\ [Next]_vars => AInv'
  BY NextAnswers
<1> QED BY InitAnswers, <1>1, PTL DEF Spec

\* "rejected" is never said of an order that is or may become live, "accepted"
\* never of one the broker does not have, and "in progress" only while somebody
\* works on the row or a lost statement left it to the next start: in every
\* interleaving of repeats, cancellations, failed statements, late broker
\* answers, crashes, power losses and retention (service.py except-clauses,
\* db/execution.py).
THEOREM AnswersTrue == Spec => []AnswersAreTrue
<1>1. AInv => RejectedMeansNoOrder
  BY DEF AInv, RejectedIsSafe, RejectedMeansNoOrder, Says, Refused
<1>2. AInv => AcceptedMeansTaken
  BY DEF AInv, AcceptedIsSafe, AcceptedMeansTaken, Says
<1>3. AInv => AnswersAreTrue
  BY <1>1, <1>2 DEF AInv, AnswersAreTrue
<1> QED BY AnswersInvariant, <1>3, PTL
=============================================================================
