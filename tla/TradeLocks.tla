----------------------------- MODULE TradeLocks -----------------------------
(***************************************************************************)
(* Which signal and which manual close may work on a trade at the same     *)
(* time.  app/signals.py keeps one asyncio.Lock per trade in a registry    *)
(* (_trade_locks), drops it when the trade is over, and lists the lock     *)
(* keys of running signals (_inflight_keys); app/execution/local.py's      *)
(* close_position derives from the tracked trades and from that list which *)
(* locks to take before it cancels and liquidates at the broker.           *)
(*                                                                         *)
(* One workspace, one account and one contract; every trade is on it.  The *)
(* process is one event loop: an action is what a task does between two    *)
(* awaits.  An uncontended asyncio.Lock is taken without suspending, a     *)
(* contended one queues its waiters first in, first out, and a lock that   *)
(* was released but has a waiter goes to that waiter.                      *)
(***************************************************************************)
EXTENDS Integers, Sequences, FiniteSets

CONSTANTS Hook,      \* trades of simple / bracket webhooks ("<webhook>:<root>")
          TsTrade,   \* TS-Hunter trades (their trade_id)
          Signal,    \* tasks running signals.process
          Manual,    \* tasks running local.close_position
          Target,    \* Signal -> the trade it is about
          KeyOrder,  \* the lock keys in sorted order, the fallback key included
          Fallback,  \* the key a close takes when there is nothing to serialise with
          Object,    \* lock objects (bound: as many as can be alive at once)
          NoLock, NoTask

Trade == Hook \cup TsTrade
LockKey == Trade \cup {Fallback}
Task == Signal \cup Manual
Place == 1..Len(KeyOrder)   \* a lock key, by its place in the sorted order

\* what the constants satisfy
TargetAssumption == Target \in [Signal -> Trade] /\ Fallback \notin Trade
TaskAssumption == Signal \cap Manual = {}
OrderAssumption ==
  /\ KeyOrder \in Seq(LockKey) /\ Len(KeyOrder) = Cardinality(LockKey)
  /\ {KeyOrder[i] : i \in 1..Len(KeyOrder)} = LockKey
NoneAssumption == NoLock \notin Object /\ NoTask \notin Task

VARIABLES lockOf,    \* _trade_locks: key -> lock object
          holder,    \* lock object -> task that holds it
          queue,     \* lock object -> tasks suspended in acquire()
          inflight,  \* _inflight_keys (of simple / bracket signals only)
          tracked,   \* trades in the active map on this account and contract
          pc,        \* Task -> "idle", "wait", "run" (at the broker), "done", "closed"
          plan,      \* Manual -> trades found, locks fetched by place (NoLock: not
                     \* one of the close's keys), the place up to which they are acquired
          saw,       \* history: Manual -> signals under way when it began
          announced  \* history: those of them it could know of

vars == <<lockOf, holder, queue, inflight, tracked, pc, plan, saw, announced>>

Ended == {"done", "closed"}
NoPlan == [found |-> {}, locks |-> [i \in Place |-> NoLock], got |-> 0]

TypeOK ==
  /\ lockOf \in [LockKey -> Object \cup {NoLock}]
  /\ holder \in [Object -> Task \cup {NoTask}]
  /\ queue \in [Object -> Seq(Task)]
  /\ inflight \subseteq Hook
  /\ tracked \subseteq Trade
  /\ pc \in [Task -> {"idle", "wait", "run"} \cup Ended]
  /\ plan \in [Manual -> [found : SUBSET Trade, locks : [Place -> Object \cup {NoLock}],
                           got : 0..Len(KeyOrder)]]
  /\ saw \in [Manual -> SUBSET Signal] /\ announced \in [Manual -> SUBSET Signal]

Init ==
  /\ lockOf = [k \in LockKey |-> NoLock]
  /\ holder = [o \in Object |-> NoTask]
  /\ queue = [o \in Object |-> <<>>]
  /\ inflight = {}
  /\ tracked \in SUBSET Trade        \* trades restored from the database
  /\ pc = [t \in Task |-> "idle"]
  /\ plan = [m \in Manual |-> NoPlan]
  /\ saw = [m \in Manual |-> {}] /\ announced = [m \in Manual |-> {}]

-----------------------------------------------------------------------------
(* asyncio.Lock and the registry *)

Idle(o) == holder[o] = NoTask /\ queue[o] = <<>>

\* No key, holder, waiter or plan refers to the object.
Unused(o) ==
  /\ Idle(o)
  /\ \A k \in LockKey : lockOf[k] # o
  /\ \A m \in Manual : pc[m] \in {"wait", "run"} =>
       \A i \in Place : plan[m].locks[i] # o

\* The keys without a lock, and different objects for each of them.
New(keys) == {k \in keys : lockOf[k] = NoLock}
Fits(f, new) == \A j, k \in new : f[j] = f[k] => j = k
Unuseds == {o \in Object : Unused(o)}
Fetchable(keys) == \E f \in [New(keys) -> Unuseds] : Fits(f, New(keys))

\* _trade_lock for each of the keys: the registered object, or a new one.
Fetch(keys) ==
  LET new == New(keys)
      fresh == CHOOSE f \in [new -> Unuseds] : Fits(f, new)
  IN [k \in LockKey |-> IF k \in new THEN fresh[k] ELSE lockOf[k]]

\* Fault: a released lock with a waiter counts as free.
DropAwaited(keys, held, waiting) ==
  [k \in LockKey |->
     IF k \in keys /\ lockOf[k] # NoLock /\ held[lockOf[k]] = NoTask
     THEN NoLock ELSE lockOf[k]]

\* _release_trade_lock for each of the keys, given who holds and awaits what:
\* only a lock nobody holds or awaits is dropped from the registry.
Drop(keys, held, waiting) ==
  [k \in LockKey |->
     IF /\ k \in keys /\ lockOf[k] # NoLock
        /\ held[lockOf[k]] = NoTask /\ waiting[lockOf[k]] = <<>>
     THEN NoLock ELSE lockOf[k]]

\* The next in line of a lock that is free.
MayWake(t, o) == holder[o] = NoTask /\ queue[o] # <<>> /\ Head(queue[o]) = t

\* A waiter leaves the queue.
Without(q, t) ==
  LET i == CHOOSE j \in 1..Len(q) : q[j] = t
  IN IF \E j \in 1..Len(q) : q[j] = t THEN SubSeq(q, 1, i - 1) \o SubSeq(q, i + 1, Len(q)) ELSE q

-----------------------------------------------------------------------------
(* signals.process and _process_ts_hunter *)

T(s) == Target[s]

\* Up to the lock: only process() announces its key in _inflight_keys.
Arrive(s) ==
  /\ pc[s] = "idle" /\ Fetchable({T(s)})
  /\ inflight' = inflight \cup ({T(s)} \cap Hook)
  /\ lockOf' = Fetch({T(s)})
  /\ LET o == lockOf'[T(s)]
     IN IF Idle(o)
        THEN /\ holder' = [holder EXCEPT ![o] = s]
             /\ pc' = [pc EXCEPT ![s] = "run"]
             /\ UNCHANGED queue
        ELSE /\ queue' = [queue EXCEPT ![o] = Append(@, s)]
             /\ pc' = [pc EXCEPT ![s] = "wait"]
             /\ UNCHANGED holder
  /\ UNCHANGED <<tracked, plan, saw, announced>>

Wake(s) ==
  /\ pc[s] = "wait"
  /\ \E o \in Object :
       /\ MayWake(s, o)
       /\ holder' = [holder EXCEPT ![o] = s]
       /\ queue' = [queue EXCEPT ![o] = Tail(@)]
  /\ pc' = [pc EXCEPT ![s] = "run"]
  /\ UNCHANGED <<lockOf, inflight, tracked, plan, saw, announced>>

\* What a handler may leave in the active map when it returns: an entry may
\* track its trade, a close or a last partial close may end it, and each may
\* change nothing (skipped, refused by the broker on every account).
Result(s) == {tracked, tracked \cup {T(s)}, tracked \ {T(s)}}

\* The lock is released, the announcement taken back and, for a close or a trade
\* that is not tracked, the lock dropped.
Return(s) ==
  /\ pc[s] = "run"
  /\ tracked' \in Result(s)
  /\ holder' = [o \in Object |-> IF holder[o] = s THEN NoTask ELSE holder[o]]
  /\ inflight' = inflight \ {T(s)}
  /\ \E isClose \in {FALSE, T(s) \in tracked /\ tracked' = tracked} :   \* a failed close
       lockOf' = IF isClose \/ T(s) \notin tracked' THEN Drop({T(s)}, holder', queue)
                 ELSE lockOf
  /\ pc' = [pc EXCEPT ![s] = "done"]
  /\ UNCHANGED <<queue, plan, saw, announced>>

\* The handler raises (a malformed payload, CancelledError) or the task is
\* cancelled while it waits: the lock object stays in the registry.
Raise(s) ==
  /\ pc[s] \in {"wait", "run"}
  /\ holder' = [o \in Object |-> IF holder[o] = s THEN NoTask ELSE holder[o]]
  /\ queue' = [o \in Object |-> Without(queue[o], s)]
  /\ inflight' = inflight \ {T(s)}
  /\ pc' = [pc EXCEPT ![s] = "done"]
  /\ UNCHANGED <<lockOf, tracked, plan, saw, announced>>

-----------------------------------------------------------------------------
(* local.close_position *)

\* Fault: the close looks at the tracked trades only.
LockSetTracked == IF tracked = {} THEN {Fallback} ELSE tracked

\* The trades whose locks a close takes.
LockSet == IF tracked \cup inflight = {} THEN {Fallback} ELSE tracked \cup inflight

\* Fault: the lock the close is about to take counts as taken.
AcquireOneMore(m, locks, i, h) ==
  LET busy == {j \in Place : /\ j >= i /\ locks[j] # NoLock
                             /\ h[locks[j]] # NoTask \/ queue[locks[j]] # <<>>}
      stop == IF busy = {} THEN Len(KeyOrder) + 1
              ELSE CHOOSE j \in busy : \A l \in busy : j <= l
      mine == {locks[j] : j \in i..(stop - 1)}
  IN [holder |-> [o \in Object |-> IF o \in mine THEN m ELSE h[o]],
      wait |-> busy # {},
      at |-> IF busy # {} THEN locks[stop] ELSE NoLock,
      got |-> stop]

\* Takes the locks from position i on until one is busy; queues there.
Acquire(m, locks, i, h) ==
  LET busy == {j \in Place : /\ j >= i /\ locks[j] # NoLock
                             /\ h[locks[j]] # NoTask \/ queue[locks[j]] # <<>>}
      stop == IF busy = {} THEN Len(KeyOrder) + 1
              ELSE CHOOSE j \in busy : \A l \in busy : j <= l
      mine == {locks[j] : j \in i..(stop - 1)}
  IN [holder |-> [o \in Object |-> IF o \in mine THEN m ELSE h[o]],
      wait |-> busy # {},
      at |-> IF busy # {} THEN locks[stop] ELSE NoLock,
      got |-> stop - 1]

\* Snapshot of the tracked trades and of the running signals, then every lock
\* object at once, then the acquisitions in key order.
Close(m) ==
  LET objs == Fetch(LockSet)
      locks == [i \in Place |-> IF KeyOrder[i] \in LockSet THEN objs[KeyOrder[i]] ELSE NoLock]
      a == Acquire(m, locks, 1, holder)
  IN /\ pc[m] = "idle" /\ Fetchable(LockSet)
     /\ lockOf' = objs
     /\ holder' = a.holder
     /\ queue' = [o \in Object |-> IF o = a.at THEN Append(queue[o], m) ELSE queue[o]]
     /\ pc' = [pc EXCEPT ![m] = IF a.wait THEN "wait" ELSE "run"]
     /\ plan' = [plan EXCEPT ![m] = [found |-> tracked, locks |-> locks, got |-> a.got]]
     /\ saw' = [saw EXCEPT ![m] = {s \in Signal : pc[s] \in {"wait", "run"}}]
     /\ announced' = [announced EXCEPT
                       ![m] = {s \in saw'[m] : T(s) \in tracked \cup inflight}]
     /\ UNCHANGED <<inflight, tracked>>

\* A close suspended in acquire() gets that lock and goes on to the next ones.
Resume(m) ==
  LET p == plan[m]
      o == p.locks[p.got + 1]
      a == Acquire(m, p.locks, p.got + 2, [holder EXCEPT ![o] = m])
  IN /\ pc[m] = "wait" /\ MayWake(m, o)
     /\ holder' = a.holder
     /\ queue' = [x \in Object |-> IF x = o THEN Tail(queue[x])
                                   ELSE IF x = a.at THEN Append(queue[x], m) ELSE queue[x]]
     /\ pc' = [pc EXCEPT ![m] = IF a.wait THEN "wait" ELSE "run"]
     /\ plan' = [plan EXCEPT ![m].got = a.got]
     /\ UNCHANGED <<lockOf, inflight, tracked, saw, announced>>

\* The keys of a close.
Keys(m) == {KeyOrder[i] : i \in {j \in Place : plan[m].locks[j] # NoLock}}

\* Fault: a close that is cancelled keeps the locks it acquired.
LetGoStranding(m, end) ==
  /\ holder' = [o \in Object |-> IF holder[o] = m /\ end = "closed" THEN NoTask ELSE holder[o]]
  /\ queue' = [o \in Object |-> Without(queue[o], m)]
  /\ lockOf' = Drop(Keys(m), holder', queue')
  /\ pc' = [pc EXCEPT ![m] = end]
  /\ plan' = [plan EXCEPT ![m] = NoPlan]
  /\ saw' = [saw EXCEPT ![m] = {}] /\ announced' = [announced EXCEPT ![m] = {}]

\* The finally-block: what was acquired is released, then the registry cleaned.
LetGo(m, end) ==
  /\ holder' = [o \in Object |-> IF holder[o] = m THEN NoTask ELSE holder[o]]
  /\ queue' = [o \in Object |-> Without(queue[o], m)]
  /\ lockOf' = Drop(Keys(m), holder', queue')
  /\ pc' = [pc EXCEPT ![m] = end]
  /\ plan' = [plan EXCEPT ![m] = NoPlan]
  /\ saw' = [saw EXCEPT ![m] = {}] /\ announced' = [announced EXCEPT ![m] = {}]

\* The position is closed: the trades of the snapshot are no longer managed.
Closed(m) ==
  /\ pc[m] = "run" /\ LetGo(m, "closed")
  /\ tracked' = tracked \ plan[m].found
  /\ UNCHANGED inflight

\* The broker refused, or the close was cancelled, waiting or working.
Aborted(m) ==
  /\ pc[m] \in {"wait", "run"} /\ LetGo(m, "done")
  /\ UNCHANGED <<inflight, tracked>>

-----------------------------------------------------------------------------

Run(s) == Wake(s) \/ Return(s)
Work(m) == Resume(m) \/ Closed(m)
Next ==
  \/ \E s \in Signal : Arrive(s) \/ Run(s) \/ Raise(s)
  \/ \E m \in Manual : Close(m) \/ Work(m) \/ Aborted(m)
  \/ (\A t \in Task : pc[t] \in Ended) /\ UNCHANGED vars     \* nothing left to do

Spec == Init /\ [][Next]_vars

\* The event loop goes on as long as some task's lock is free or its broker call
\* ended; nothing promises that a signal arrives, raises or is cancelled.  (Every
\* task takes a bounded number of steps, so none needs a promise of its own.)
FairSpec == Spec /\ WF_vars(\/ \E s \in Signal : Run(s)
                            \/ \E m \in Manual : Work(m))

-----------------------------------------------------------------------------
(* Properties *)

\* Two signals for the same trade never work at the broker together, although
\* locks are dropped and created anew between them (signals.py:59-63, 76-80).
SignalsExclusive ==
  \A s, u \in Signal : s # u /\ T(s) = T(u) => ~(pc[s] = "run" /\ pc[u] = "run")

\* local.py:52-53: a manual close never works at the broker while a signal that
\* was under way when it began does.
NoInterleaving ==
  \A m \in Manual : pc[m] = "run" => \A s \in saw[m] : pc[s] # "run"

\* A close never works at the broker beside a signal that was under way when it
\* began and whose trade was tracked or announced then, however many locks were
\* dropped and created anew while it waited (local.py:52-53, 66-69).
KnownSignalsEnd ==
  \A m \in Manual : pc[m] = "run" => \A s \in announced[m] : pc[s] # "run"

\* signals.py:79-80, "a second Lock must never appear beside it": while a task
\* holds or awaits a lock for a key, the registry names no other for that key.
NoSecondLock ==
  /\ \A s \in Signal, o \in Object :
       holder[o] = s \/ (\E i \in 1..Len(queue[o]) : queue[o][i] = s) =>
         lockOf[T(s)] \in {o, NoLock}
  /\ \A m \in Manual : pc[m] \in {"wait", "run"} =>
       \A i \in 1..(IF pc[m] = "wait" THEN plan[m].got + 1 ELSE plan[m].got) :
         plan[m].locks[i] # NoLock => lockOf[KeyOrder[i]] \in {plan[m].locks[i], NoLock}

\* Nobody waits or works forever: closes that take several locks in key order,
\* signals that take one, cancelled closes that held some of theirs.
EveryTaskEnds == <>[](\A t \in Task : pc[t] \in {"idle"} \cup Ended)
=============================================================================
